---- MODULE Spec2Model ----
(***************************************************************************)
(* Model of the authentication core of aim: the password hashing policy of *)
(* User (aim/domain/user/user.py), the token codec and Session             *)
(* (aim/domain/user/session.py), the session directory Users               *)
(* (aim/domain/user/users.py) and login_by_password                        *)
(* (aim/application/session.py), and of the utilities it stands on: the    *)
(* id generator, the session handler and the config parser (aim/util) and  *)
(* the soft-deleting repository (aim/infrastructure/rdbms/_base.py).       *)
(*                                                                         *)
(* Requests are asyncio tasks: they interleave only at an await (the user  *)
(* store's find and save), so every action below is the synchronous code   *)
(* between two awaits.                                                     *)
(***************************************************************************)
EXTENDS Integers, Sequences, FiniteSets, TLC

VARIABLES
    now,      \* int(time.time()): the clock, in seconds
    store,    \* the user store: a set of UserData rows, at most one per id
    nhash,    \* number of argon2 hashing steps so far (each draws a fresh salt)
    nsid,     \* number of uuid4 session ids drawn so far
    nticks,   \* number of times the clock was seen to advance
    pc,       \* pc[r]: where request r stands
    op,       \* op[r]: the operation request r runs
    arg,      \* arg[r]: its arguments
    self,     \* self[r]: the User entity the request holds (its own copy)
    seen,     \* seen[r]: what find returned and what _validate_password answered
    result,   \* result[r]: what the caller observes when the request ends
    session,  \* the Session object a bearer-token caller holds, or None
    ret,      \* what the last Session/Users call on a token returned
    offered,  \* the token last presented to a Session/Users call
    logged_out, \* the tokens that logout has accepted so far
    millis,   \* int(time.time() * 1000) - epoch: the clock, in milliseconds
    generator, \* the SnowflakeGenerator: _sequence, _last_timestamp, _lock
    thread,   \* thread[t]: where thread t stands in generate(), what its last
              \* call gave, and whether that call went through the wait loop
    issued,   \* what the generate() calls gave, in the order they held the lock
    ncalls,   \* number of generate() calls started so far
    setbacks, \* number of times the clock was set back
    uow,      \* the `async with session_handler(session)` block in progress
    sessions, \* sessions[i]: AsyncSession i (0 is the caller's own session)
    database, \* the committed rows of the test_model table
    nuses,    \* number of times session_handler was entered
    os_environ,   \* os.environ: the environment variables of the process
    dotenv_files, \* the contents of the .env files, in the order they are listed
    parser,   \* the ConfigParser: _cli_args, _env_prefix, _env_vars
    last_parse, \* the last parse_* call and what it returned
    table,    \* the rows of a BaseRepositoryPlus table, at most one per id
    repo_ret  \* the last repository call and what it gave

reqVars == <<pc, op, arg, self, seen, result>>
tokVars == <<session, ret, offered, logged_out>>
genVars == <<millis, generator, thread, issued, ncalls, setbacks>>
shVars == <<uow, sessions, database, nuses>>
cfgVars == <<os_environ, dotenv_files, parser, last_parse>>
repoVars == <<table, repo_ret>>
utilVars == <<genVars, shVars, cfgVars, repoVars>>

vars == <<now, nticks, store, nhash, nsid, reqVars, tokVars, utilVars>>

----------------------------------------------------------------------------
(* Bounds of the model *)

NumRequests == 2
MaxHashes == 3
MaxSessions == 3
MaxTicks == 2
MaxLogins == 1
NumThreads == 2
MaxCalls == 3
MaxMillis == 1
MaxSetbacks == 1
MaxUses == 3

Requests == 1..NumRequests
Threads == 1..NumThreads
UserIds == {42, 7}
Passwords == {"hunter2", "letmein"}

----------------------------------------------------------------------------
(* Config.new *)

exp_access_token == 5 * 60
exp_refresh_token == 30 * 24 * 60 * 60
jwt_secret == "cert_sign"

None == [none |-> TRUE]

----------------------------------------------------------------------------
(* Password hashing: hashlib.md5 and argon2.PasswordHasher *)

\* password_hash of a user that never had a password: the empty string
EmptyHash == [alg |-> "", pw |-> "", salt |-> 0, params |-> ""]

\* A hash some other writer stored; no scheme of this program produces it
OpaqueHash == [alg |-> "opaque", pw |-> "", salt |-> 0, params |-> ""]

\* hashlib.md5(password.encode("utf-8")).hexdigest(): unsalted, deterministic
md5(password) == [alg |-> "md5", pw |-> password, salt |-> 0, params |-> ""]

\* argon2.PasswordHasher().hash(password): salted, with the current parameters
argon2_hash(password, salt) ==
    [alg |-> "argon2", pw |-> password, salt |-> salt, params |-> "current"]

\* A hash made by an argon2 hasher with other cost parameters than today's
argon2_stale_hash(password) ==
    [alg |-> "argon2", pw |-> password, salt |-> 0, params |-> "stale"]

\* argon2.PasswordHasher().verify(hash, password): returns, or raises
argon2_verify(hash, password) ==
    IF hash.alg # "argon2" THEN "InvalidHashError"
    ELSE IF hash.pw = password THEN "ok"
    ELSE "VerifyMismatchError"

\* argon2.PasswordHasher().check_needs_rehash(hash)
check_needs_rehash(hash) == hash.params # "current"

Returned(valid, need_rehash) ==
    [raised |-> "", valid |-> valid, need_rehash |-> need_rehash]

Raised(exc) == [raised |-> exc, valid |-> FALSE, need_rehash |-> FALSE]

\* The md5 and the argon2 branch of _validate_password
validate_md5(user, password) ==
    LET valid == md5(password) = user.password_hash
    IN  Returned(valid, valid)

validate_argon2(user, password) ==
    LET v == argon2_verify(user.password_hash, password)
    IN  IF v = "ok"
        THEN Returned(TRUE, check_needs_rehash(user.password_hash))
        ELSE IF v = "VerifyMismatchError"
        THEN Returned(FALSE, FALSE)
        ELSE Raised(v)

\* A variant whose md5 branch never asks for a rehash
validate_password_md5_kept(user, password) ==
    CASE user.password_type = "md5" ->
            Returned(md5(password) = user.password_hash, FALSE)
      [] user.password_type = "argon2" -> validate_argon2(user, password)
      [] user.password_type = "none" -> Returned(FALSE, FALSE)
      [] OTHER -> Raised("ValueError")

\* A variant whose none branch compares the password with the empty hash
validate_password_none_open(user, password) ==
    CASE user.password_type = "md5" -> validate_md5(user, password)
      [] user.password_type = "argon2" -> validate_argon2(user, password)
      [] user.password_type = "none" ->
            Returned(user.password_hash = EmptyHash, FALSE)
      [] OTHER -> Raised("ValueError")

\* A variant whose default branch answers like a wrong password
validate_password_unknown_wrong(user, password) ==
    CASE user.password_type = "md5" -> validate_md5(user, password)
      [] user.password_type = "argon2" -> validate_argon2(user, password)
      [] user.password_type = "none" -> Returned(FALSE, FALSE)
      [] OTHER -> Returned(FALSE, FALSE)

\* User._validate_password
validate_password(user, password) ==
    CASE user.password_type = "md5" -> validate_md5(user, password)
      [] user.password_type = "argon2" -> validate_argon2(user, password)
      [] user.password_type = "none" -> Returned(FALSE, FALSE)
      [] OTHER -> Raised("ValueError")

\* A variant that re-issues the legacy scheme
hash_password_legacy(password, salt) ==
    [password_type |-> "md5", password_hash |-> md5(password)]

\* User._hash_password: the (password_type, password_hash) pair
hash_password(password, salt) ==
    [password_type |-> "argon2", password_hash |-> argon2_hash(password, salt)]

\* A variant that assigns password_type and leaves password_hash as it was
set_password_type_only(user, password, salt) ==
    [user EXCEPT !.password_type = hash_password(password, salt).password_type]

\* self.password_type, self.password_hash = self._hash_password(new_password)
set_password(user, password, salt) ==
    [user EXCEPT !.password_type = hash_password(password, salt).password_type,
                 !.password_hash = hash_password(password, salt).password_hash]

----------------------------------------------------------------------------
(* The user store: UserRepository.find and UserRepository.save *)

UserData(id, name, password_type, password_hash) ==
    [id |-> id, name |-> name, password_type |-> password_type,
     password_hash |-> password_hash]

\* find(id): the row with this id, or None
repository_find(rows, id) ==
    IF \E row \in rows : row.id = id
    THEN CHOOSE row \in rows : row.id = id
    ELSE None

\* The columns a row takes from the entity saved
to_model(user) ==
    UserData(user.id, user.name, user.password_type, user.password_hash)

\* save(user): upsert keyed by id, written when the transaction commits
repository_save(rows, user) ==
    {row \in rows : row.id # user.id} \cup {to_model(user)}

----------------------------------------------------------------------------
(* Token codec: jwt.encode, jwt.decode and the two payload kinds *)

Names == {"alice", "bob"}

\* jwt.encode(claims, key): the claims, signed with the key (HS256)
jwt_encode(claims, key) == [claims |-> claims, sig |-> key]

IsJwt(token) == DOMAIN token = {"claims", "sig"}

Claims(c) == [exc |-> "", claims |-> c]
DecodeFailure(exc) == [exc |-> exc, claims |-> None]

\* jwt.decode(token, key, algorithms=["HS256"], options={"verify_exp": ...})
\* at clock reading t: the claims, or the exception it raises. PyJWT checks
\* the structure, then the signature, then (unless told not to) the exp claim
\* when there is one: the token is expired when exp <= now.
jwt_decode_options(token, key, t, verify_exp) ==
    IF ~IsJwt(token) THEN DecodeFailure("DecodeError")
    ELSE IF token.sig # key THEN DecodeFailure("InvalidSignatureError")
    ELSE IF verify_exp /\ "exp" \in DOMAIN token.claims /\ token.claims.exp <= t
    THEN DecodeFailure("ExpiredSignatureError")
    ELSE Claims(token.claims)

\* jwt.decode(token, key, algorithms=["HS256"]): verify_exp is on by default
jwt_decode(token, key, t) == jwt_decode_options(token, key, t, TRUE)

AccessTokenPayload(session_id, user_id, username, expire_at) ==
    [session_id |-> session_id, user_id |-> user_id, username |-> username,
     expire_at |-> expire_at]

RefershTokenPayload(session_id, user_id, expire_at) ==
    [session_id |-> session_id, user_id |-> user_id, expire_at |-> expire_at]

Parsed(payload) == [exc |-> "", payload |-> payload]
KeyError == [exc |-> "KeyError", payload |-> None]

\* AccessTokenPayload._to_claims
access_to_claims(payload) ==
    [sid |-> payload.session_id, uid |-> payload.user_id,
     uname |-> payload.username, exp |-> payload.expire_at]

\* A variant that reads the session id and the user id from each other's key
access_form_claims_swapped(claims) ==
    IF {"sid", "uid", "uname", "exp"} \subseteq DOMAIN claims
    THEN Parsed(AccessTokenPayload(claims.uid, claims.sid, claims.uname, claims.exp))
    ELSE KeyError

\* A variant that reads the username with claims.get("uname", "")
access_form_claims_defaulting(claims) ==
    IF {"sid", "uid", "exp"} \subseteq DOMAIN claims
    THEN Parsed(AccessTokenPayload(
             claims.sid, claims.uid,
             IF "uname" \in DOMAIN claims THEN claims.uname ELSE "",
             claims.exp))
    ELSE KeyError

\* AccessTokenPayload._form_claims: claims[key] raises KeyError on a missing key
access_form_claims(claims) ==
    IF {"sid", "uid", "uname", "exp"} \subseteq DOMAIN claims
    THEN Parsed(AccessTokenPayload(claims.sid, claims.uid, claims.uname, claims.exp))
    ELSE KeyError

\* RefershTokenPayload._to_claims
refresh_to_claims(payload) ==
    [sid |-> payload.session_id, uid |-> payload.user_id, exp |-> payload.expire_at]

\* RefershTokenPayload._form_claims
refresh_form_claims(claims) ==
    IF {"sid", "uid", "exp"} \subseteq DOMAIN claims
    THEN Parsed(RefershTokenPayload(claims.sid, claims.uid, claims.exp))
    ELSE KeyError

form_claims(payload_type, claims) ==
    IF payload_type = "AccessTokenPayload"
    THEN access_form_claims(claims)
    ELSE refresh_form_claims(claims)

\* A variant that decodes with options={"verify_exp": False}
decode_token_unexpiring(payload_type, token, t) ==
    LET decoded == jwt_decode_options(token, jwt_secret, t, FALSE)
    IN  IF decoded.exc # "" THEN None
        ELSE LET parsed == form_claims(payload_type, decoded.claims)
             IN  IF parsed.exc = "KeyError" THEN None ELSE parsed.payload

\* _decode_token(config, payload, token): the payload, or None
decode_token(payload_type, token, t) ==
    LET decoded == jwt_decode(token, jwt_secret, t)
    IN  IF decoded.exc = "ExpiredSignatureError" THEN None
        ELSE IF decoded.exc # "" THEN None
        ELSE LET parsed == form_claims(payload_type, decoded.claims)
             IN  IF parsed.exc = "KeyError" THEN None ELSE parsed.payload

\* A variant that gives the access token the refresh TTL
new_access_token_long_lived(session_id, user, t) ==
    LET expire_at == t + exp_refresh_token
        is_payload == "username" \in DOMAIN user
        user_id  == IF is_payload THEN user.user_id ELSE user.id
        username == IF is_payload THEN user.username ELSE user.name
        payload  == AccessTokenPayload(session_id, user_id, username, expire_at)
    IN  [token |-> jwt_encode(access_to_claims(payload), jwt_secret),
         payload |-> payload]

\* _new_access_token(config, session_id, user): user is a User or an
\* AccessTokenPayload (isinstance)
new_access_token(session_id, user, t) ==
    LET expire_at == t + exp_access_token
        is_payload == "username" \in DOMAIN user
        user_id  == IF is_payload THEN user.user_id ELSE user.id
        username == IF is_payload THEN user.username ELSE user.name
        payload  == AccessTokenPayload(session_id, user_id, username, expire_at)
    IN  [token |-> jwt_encode(access_to_claims(payload), jwt_secret),
         payload |-> payload]

\* A variant that gives the refresh token the refresh TTL
new_refresh_token_long_lived(session_id, user, t) ==
    LET expire_at == t + exp_refresh_token
        payload == RefershTokenPayload(session_id, user.id, expire_at)
    IN  jwt_encode(refresh_to_claims(payload), jwt_secret)

\* _new_refresh_token(config, session_id, user)
new_refresh_token(session_id, user, t) ==
    LET expire_at == t + exp_access_token
        payload == RefershTokenPayload(session_id, user.id, expire_at)
    IN  jwt_encode(refresh_to_claims(payload), jwt_secret)

----------------------------------------------------------------------------
(* Session *)

Session(id, access_token, access_payload, refresh_token) ==
    [id |-> id, access_token |-> access_token, access_payload |-> access_payload,
     refresh_token |-> refresh_token]

\* Session.new(user, config) with uuid4 id
Session_new(user, id, t) ==
    LET access == new_access_token(id, user, t)
    IN  Session(id, access.token, access.payload, new_refresh_token(id, user, t))

\* A variant that looks the payload's user up in the store
from_access_token_checking_store(token, t) ==
    LET payload == decode_token("AccessTokenPayload", token, t)
    IN  IF payload = None THEN None
        ELSE IF repository_find(store, payload.user_id) = None THEN None
        ELSE Session(payload.session_id, token, payload, None)

\* Session._from_access_token
from_access_token(token, t) ==
    LET payload == decode_token("AccessTokenPayload", token, t)
    IN  IF payload = None THEN None
        ELSE Session(payload.session_id, token, payload, None)

\* A variant that mints from the payload's user_id when find returns None
from_refresh_token_unchecked(token, rows, id, t) ==
    LET payload == decode_token("RefershTokenPayload", token, t)
    IN  IF payload = None \/ payload.user_id # payload.user_id THEN None
        ELSE LET found == repository_find(rows, payload.user_id)
                 user == IF found = None
                         THEN [id |-> payload.user_id, name |-> ""]
                         ELSE found
                 access == new_access_token(id, user, t)
             IN  Session(id, access.token, access.payload, token)

\* A variant that rotates the refresh token on redemption
from_refresh_token_rotating(token, rows, id, t) ==
    LET payload == decode_token("RefershTokenPayload", token, t)
    IN  IF payload = None \/ payload.user_id # payload.user_id THEN None
        ELSE LET user == repository_find(rows, payload.user_id)
             IN  IF user = None THEN None
                 ELSE LET access == new_access_token(id, user, t)
                      IN  Session(id, access.token, access.payload,
                                  new_refresh_token(id, user, t))

\* Session._from_refresh_token, with users.find reading rows and uuid4 id
from_refresh_token(token, rows, id, t) ==
    LET payload == decode_token("RefershTokenPayload", token, t)
    IN  IF payload = None \/ payload.user_id # payload.user_id THEN None
        ELSE LET user == repository_find(rows, payload.user_id)
             IN  IF user = None THEN None
                 ELSE LET access == new_access_token(id, user, t)
                      IN  Session(id, access.token, access.payload, token)

\* A variant that compares with <= instead of <
need_refresh_inclusive(s, t) ==
    (s.access_payload.expire_at - t) * 10 <= 2 * exp_refresh_token

\* need_refresh of Session.try_refresh_access_token: threshold = 0.2, and
\* 0.2 * exp_refresh_token is exact in floating point for the configured value
need_refresh(s, t) ==
    (s.access_payload.expire_at - t) * 10 < 2 * exp_refresh_token

\* A variant that reads the user from the store again when it re-mints
try_refresh_access_token_refetching(s, t) ==
    IF ~need_refresh(s, t)
    THEN [returned |-> FALSE, session |-> s]
    ELSE LET user == repository_find(store, s.access_payload.user_id)
             access == new_access_token(
                           s.id, IF user = None THEN s.access_payload ELSE user, t)
         IN  [returned |-> TRUE,
              session |-> [s EXCEPT !.access_token = access.token,
                                    !.access_payload = access.payload]]

\* Session.try_refresh_access_token: the value returned and the session after
try_refresh_access_token(s, t) ==
    IF ~need_refresh(s, t)
    THEN [returned |-> FALSE, session |-> s]
    ELSE LET access == new_access_token(s.id, s.access_payload, t)
         IN  [returned |-> TRUE,
              session |-> [s EXCEPT !.access_token = access.token,
                                    !.access_payload = access.payload]]

----------------------------------------------------------------------------
(* What a caller observes *)

Bool(b) == [bool |-> b]

Return(value) == [kind |-> "return", value |-> value]

Raise(exc) == [kind |-> "raise", exc |-> exc, args |-> <<>>]

\* A variant that tells the caller the user id is unknown
no_such_user_told == Raise("UserNotFound")

\* raise InvalidAuthorizationCredentials() when users.find returned None
no_such_user == Raise("InvalidAuthorizationCredentials")

\* raise InvalidAuthorizationCredentials() when user.login returned None
login_failed == Raise("InvalidAuthorizationCredentials")

NoArg == [user_id |-> 0, password |-> "", new_password |-> ""]
NotSeen == [found |-> None, checked |-> None]

----------------------------------------------------------------------------
(* Initial state *)

\* The records user 42 may hold when the service starts: created by Users.new
\* and never given a password, migrated from the legacy md5 scheme, hashed by
\* argon2 with today's or with older parameters, or written with a
\* password_type this program does not know
InitialUsers ==
    { UserData(42, "alice", "none", EmptyHash),
      UserData(42, "alice", "md5", md5("hunter2")),
      UserData(42, "alice", "argon2", argon2_hash("hunter2", 0)),
      UserData(42, "alice", "argon2", argon2_stale_hash("hunter2")),
      UserData(42, "alice", "sha256", OpaqueHash) }

\* SnowflakeGenerator.__init__
SnowflakeGenerator(a_machine_id) ==
    [machine_id |-> a_machine_id, sequence |-> 0, last_timestamp |-> -1,
     lock |-> 0]

\* The id of this process
machine_id == 1

\* No thread is inside generate()
ThreadsIdle == [t \in Threads |-> [pc |-> "idle", out |-> None, spun |-> FALSE]]

\* An AsyncSession with nothing added, and what was called on it so far
AsyncSession ==
    [pending |-> {}, commits |-> 0, rollbacks |-> 0, closes |-> 0]

\* No `async with session_handler(...)` block is running
NoBlock ==
    [pc |-> "out", given |-> None, session |-> None, new_session |-> None,
     body |-> None, outcome |-> None]

\* No session was handed out yet and the table is empty
InitSessionHandler ==
    /\ uow = NoBlock
    /\ sessions = [i \in 0..MaxUses |-> AsyncSession]
    /\ database = {}
    /\ nuses = 0

\* A new generator that no thread has called
InitGenerator ==
    /\ millis = 0
    /\ generator = SnowflakeGenerator(machine_id)
    /\ thread = ThreadsIdle
    /\ issued = <<>>
    /\ ncalls = 0
    /\ setbacks = 0

\* A dict with no key
EmptyDict == [k \in {} |-> None]

\* d.get(k)
dict_get(d, k) == IF k \in DOMAIN d THEN d[k] ELSE None

\* d.update(e)
dict_update(d, e) ==
    [k \in DOMAIN d \cup DOMAIN e |-> IF k \in DOMAIN e THEN e[k] ELSE d[k]]

\* The files of the list in reverse order
reversed(files) == [i \in 1..Len(files) |-> files[Len(files) + 1 - i]]

\* ConfigParser._load_env_files: the files are read in reverse order, each
\* updating the dict, and os.environ updates it last
RECURSIVE update_all(_, _)
update_all(env_vars, files) ==
    IF files = <<>> THEN env_vars
    ELSE update_all(dict_update(env_vars, Head(files)), Tail(files))

load_env_files(files, environ) ==
    dict_update(update_all(EmptyDict, reversed(files)), environ)

\* ConfigParser.__init__
ConfigParser(cli_args, env_files, env_prefix, environ) ==
    [cli_args |-> cli_args,
     env_prefix |-> IF env_prefix # "" THEN env_prefix \o "_" ELSE "",
     env_vars |-> load_env_files(env_files, environ)]

\* A parser with no source at all
InitConfig ==
    /\ os_environ = EmptyDict
    /\ dotenv_files = <<>>
    /\ parser = ConfigParser(EmptyDict, <<>>, "", EmptyDict)
    /\ last_parse = None

\* An empty table and no call yet
InitRepository ==
    /\ table = {}
    /\ repo_ret = None

\* The utilities before anything has used them
InitUtil == InitGenerator /\ InitSessionHandler /\ InitConfig /\ InitRepository

InitUsers ==
    /\ now = 0
    /\ nticks = 0
    /\ \E user \in InitialUsers : store = {user}
    /\ nhash = 0
    /\ nsid = 0
    /\ pc = [r \in Requests |-> "idle"]
    /\ op = [r \in Requests |-> ""]
    /\ arg = [r \in Requests |-> NoArg]
    /\ self = [r \in Requests |-> None]
    /\ seen = [r \in Requests |-> NotSeen]
    /\ result = [r \in Requests |-> None]
    /\ session = None
    /\ ret = None
    /\ offered = None
    /\ logged_out = {}

Init == InitUsers /\ InitUtil

----------------------------------------------------------------------------
(* Password requests *)

\* Request r starts (requests are numbered in the order they start) and its
\* `await users.find(user_id)` returns
Found(r, name, a, user) ==
    /\ pc[r] = "idle"
    /\ IF r = 1 THEN TRUE ELSE pc[r - 1] # "idle"
    /\ op' = [op EXCEPT ![r] = name]
    /\ arg' = [arg EXCEPT ![r] = a]
    /\ self' = [self EXCEPT ![r] = user]
    /\ seen' = [seen EXCEPT ![r] = [found |-> user, checked |-> None]]

Finish(r, outcome) ==
    /\ pc' = [pc EXCEPT ![r] = "done"]
    /\ result' = [result EXCEPT ![r] = outcome]

\* login_by_password, to the return of users.find
login_by_password(r, user_id, password) ==
    LET user == repository_find(store, user_id)
    IN  /\ Found(r, "login_by_password",
                 [user_id |-> user_id, password |-> password, new_password |-> ""],
                 user)
        /\ IF user = None
           THEN Finish(r, no_such_user)
           ELSE /\ pc' = [pc EXCEPT ![r] = "login"]
                /\ UNCHANGED result
        /\ UNCHANGED <<now, nticks, store, nhash, nsid, tokVars, utilVars>>

\* A caller of User.update_password, to the return of users.find
find_update_password(r, user_id, old_password, new_password) ==
    LET user == repository_find(store, user_id)
    IN  /\ Found(r, "update_password",
                 [user_id |-> user_id, password |-> old_password,
                  new_password |-> new_password],
                 user)
        /\ IF user = None
           THEN Finish(r, Return(None))
           ELSE /\ pc' = [pc EXCEPT ![r] = "update_password"]
                /\ UNCHANGED result
        /\ UNCHANGED <<now, nticks, store, nhash, nsid, tokVars, utilVars>>

\* A caller of User.reset_password, to the return of users.find
find_reset_password(r, user_id, new_password) ==
    LET user == repository_find(store, user_id)
    IN  /\ Found(r, "reset_password",
                 [user_id |-> user_id, password |-> "", new_password |-> new_password],
                 user)
        /\ IF user = None
           THEN Finish(r, Return(None))
           ELSE /\ pc' = [pc EXCEPT ![r] = "reset_password"]
                /\ UNCHANGED result
        /\ UNCHANGED <<now, nticks, store, nhash, nsid, tokVars, utilVars>>

\* The in-memory assignment of both password fields, then `await self._save()`
BeginSave(r, password) ==
    /\ nhash < MaxHashes
    /\ nhash' = nhash + 1
    /\ self' = [self EXCEPT ![r] = set_password(self[r], password, nhash + 1)]
    /\ pc' = [pc EXCEPT ![r] = "save"]
    /\ UNCHANGED <<result, nsid>>

\* User.login, to its first await or to its return, and the rest of
\* login_by_password when login returns without awaiting
login(r) ==
    /\ pc[r] = "login"
    /\ LET checked == validate_password(self[r], arg[r].password)
       IN  /\ seen' = [seen EXCEPT ![r].checked = checked]
           /\ IF checked.raised # ""
              THEN Finish(r, Raise(checked.raised)) /\ UNCHANGED <<self, nhash, nsid>>
              ELSE IF ~checked.valid
              THEN Finish(r, login_failed) /\ UNCHANGED <<self, nhash, nsid>>
              ELSE IF checked.need_rehash
              THEN BeginSave(r, arg[r].password)
              ELSE /\ nsid < MaxSessions
                   /\ nsid' = nsid + 1
                   /\ Finish(r, Return(Session_new(self[r], nsid + 1, now)))
                   /\ UNCHANGED <<self, nhash>>
    /\ UNCHANGED <<now, nticks, store, op, arg, tokVars, utilVars>>

\* User.update_password, to its await or to its return
update_password(r) ==
    /\ pc[r] = "update_password"
    /\ LET checked == validate_password(self[r], arg[r].password)
       IN  /\ seen' = [seen EXCEPT ![r].checked = checked]
           /\ IF checked.raised # ""
              THEN Finish(r, Raise(checked.raised)) /\ UNCHANGED <<self, nhash, nsid>>
              ELSE IF ~checked.valid
              THEN Finish(r, Return(Bool(FALSE))) /\ UNCHANGED <<self, nhash, nsid>>
              ELSE BeginSave(r, arg[r].new_password)
    /\ UNCHANGED <<now, nticks, store, op, arg, tokVars, utilVars>>

\* User.reset_password, to its await
reset_password(r) ==
    /\ pc[r] = "reset_password"
    /\ BeginSave(r, arg[r].new_password)
    /\ UNCHANGED <<now, nticks, store, op, arg, seen, tokVars, utilVars>>

\* What runs after `await self._save()` returns, to the end of the request
AfterSave(r) ==
    CASE op[r] = "login_by_password" ->
            /\ nsid < MaxSessions
            /\ nsid' = nsid + 1
            /\ Finish(r, Return(Session_new(self[r], nsid + 1, now)))
      [] op[r] = "update_password" ->
            Finish(r, Return(Bool(TRUE))) /\ UNCHANGED nsid
      [] OTHER ->
            Finish(r, Return(None)) /\ UNCHANGED nsid

\* UserRepository.save inside session_handler: the body completes and the
\* transaction commits
save_commit(r) ==
    /\ pc[r] = "save"
    /\ store' = repository_save(store, self[r])
    /\ AfterSave(r)
    /\ UNCHANGED <<now, nticks, nhash, op, arg, self, seen, tokVars, utilVars>>

\* UserRepository.save inside session_handler: an exception, rollback, re-raise
save_fail(r) ==
    /\ pc[r] = "save"
    /\ Finish(r, Raise("SQLAlchemyError"))
    /\ UNCHANGED <<now, nticks, store, nhash, nsid,
                   op, arg, self, seen, tokVars, utilVars>>

\* The framework cancels the task at the await it is suspended in: the
\* session is closed without a commit
cancel(r) ==
    /\ pc[r] \in {"login", "update_password", "reset_password", "save"}
    /\ Finish(r, Raise("CancelledError"))
    /\ UNCHANGED <<now, nticks, store, nhash, nsid,
                   op, arg, self, seen, tokVars, utilVars>>

\* The framework cancels the task while it awaits session.commit(): the
\* caller sees CancelledError, and the database has committed all the same
cancel_in_commit(r) ==
    /\ pc[r] = "save"
    /\ store' = repository_save(store, self[r])
    /\ Finish(r, Raise("CancelledError"))
    /\ UNCHANGED <<now, nticks, nhash, nsid,
                   op, arg, self, seen, tokVars, utilVars>>

Next ==
    \/ \E r \in Requests, user_id \in UserIds, password \in Passwords :
          login_by_password(r, user_id, password)
    \/ \E r \in Requests, user_id \in UserIds, old \in Passwords, new \in Passwords :
          find_update_password(r, user_id, old, new)
    \/ \E r \in Requests, user_id \in UserIds, new \in Passwords :
          find_reset_password(r, user_id, new)
    \/ \E r \in Requests : login(r)
    \/ \E r \in Requests : update_password(r)
    \/ \E r \in Requests : reset_password(r)
    \/ \E r \in Requests : save_commit(r)
    \/ \E r \in Requests : save_fail(r)
    \/ \E r \in Requests : cancel(r)
    \/ \E r \in Requests : cancel_in_commit(r)

Spec == Init /\ [][Next]_vars

----------------------------------------------------------------------------
(* Properties of the password requests, checked under Spec *)

KnownPasswordTypes == {"none", "md5", "argon2"}

\* Request r asked _validate_password and it answered
Checked(r) == seen[r].checked # None

\* login_by_password request r found no user
LoginNoUser(r) ==
    op[r] = "login_by_password" /\ pc[r] = "done" /\ seen[r].found = None

\* login_by_password request r found the user and the password did not verify
LoginWrongPassword(r) ==
    /\ op[r] = "login_by_password" /\ pc[r] = "done"
    /\ seen[r].found # None
    /\ Checked(r)
    /\ seen[r].checked.raised = ""
    /\ ~seen[r].checked.valid

\* Request r ended by returning a Session that carries both tokens
ReturnedSession(r) ==
    /\ pc[r] = "done"
    /\ result[r].kind = "return"
    /\ result[r].value # None
    /\ IsJwt(result[r].value.access_token)
    /\ result[r].value.refresh_token # None
    /\ IsJwt(result[r].value.refresh_token)

\* C1: a login_by_password that finds no user and one that finds the user but
\* not the password both end in InvalidAuthorizationCredentials raised without
\* arguments, so the two outcomes are equal and tell the caller nothing apart.
C1_SameFailure ==
    /\ \A r \in Requests :
          (LoginNoUser(r) \/ LoginWrongPassword(r))
          => result[r] = [kind |-> "raise",
                          exc |-> "InvalidAuthorizationCredentials",
                          args |-> <<>>]
    /\ \A r, q \in Requests :
          (LoginNoUser(r) /\ LoginWrongPassword(q)) => result[r] = result[q]

\* C1 witness: one login ended on an unknown user id, another on a wrong password
C1_Witness ==
    \E r, q \in Requests : LoginNoUser(r) /\ LoginWrongPassword(q)

\* Login request r found an md5 record whose hash matches its password
LegacyLogin(r) ==
    /\ op[r] = "login_by_password"
    /\ seen[r].found # None
    /\ seen[r].found.password_type = "md5"
    /\ seen[r].found.password_hash = md5(arg[r].password)

\* Login request q found the very record that login request r wrote when it
\* rehashed, and presents the same password
LaterLogin(r, q) ==
    /\ r # q
    /\ LegacyLogin(r) /\ ReturnedSession(r)
    /\ op[q] = "login_by_password"
    /\ seen[q].found = to_model(self[r])
    /\ arg[q].password = arg[r].password

StoredType(user_id) ==
    IF repository_find(store, user_id) = None THEN ""
    ELSE repository_find(store, user_id).password_type

\* The step in which request r runs _validate_password
Validates(r) == seen[r].checked = None /\ seen'[r].checked # None

\* C3: while the stored password_type of a user is none, a login or an
\* update_password for that user gets (false, false) from _validate_password
\* whatever the password, ends without a Session (login_by_password raises
\* InvalidAuthorizationCredentials, update_password returns False), and
\* changes neither the store nor the entity.
C3_NoneNeverAuthenticates ==
    [][\A r \in Requests :
          (Validates(r) /\ StoredType(arg[r].user_id) = "none")
          => /\ seen'[r].checked = Returned(FALSE, FALSE)
             /\ pc'[r] = "done"
             /\ result'[r] = IF op[r] = "login_by_password"
                             THEN Raise("InvalidAuthorizationCredentials")
                             ELSE Return(Bool(FALSE))
             /\ store' = store
             /\ self'[r] = self[r]]_vars

\* C3 witness: a login and an update_password on a user of type none, with
\* different passwords, both refused
C3_Witness ==
    \E r, q \in Requests :
        /\ op[r] = "login_by_password" /\ op[q] = "update_password"
        /\ pc[r] = "done" /\ pc[q] = "done"
        /\ Checked(r) /\ Checked(q)
        /\ seen[r].found.password_type = "none"
        /\ seen[q].found.password_type = "none"
        /\ arg[r].password # arg[q].password
        /\ StoredType(arg[r].user_id) = "none"

\* C4: when the entity's password_type is none of none, md5, argon2, the
\* login's _validate_password raises ValueError and login_by_password ends
\* with that ValueError, not with InvalidAuthorizationCredentials; no Session
\* is returned and neither the store nor the entity changes.
C4_UnknownTypeIsFatal ==
    [][\A r \in Requests :
          (/\ Validates(r)
           /\ op[r] = "login_by_password"
           /\ self[r].password_type \notin KnownPasswordTypes)
          => /\ seen'[r].checked = Raised("ValueError")
             /\ pc'[r] = "done"
             /\ result'[r] = Raise("ValueError")
             /\ result'[r] # login_failed
             /\ store' = store
             /\ self'[r] = self[r]]_vars

\* C4 witness: a login on a record of type sha256 ended with ValueError
C4_Witness ==
    \E r \in Requests :
        /\ op[r] = "login_by_password"
        /\ pc[r] = "done"
        /\ seen[r].found # None
        /\ seen[r].found.password_type = "sha256"
        /\ result[r] = Raise("ValueError")

PairOf(row) ==
    [password_type |-> row.password_type, password_hash |-> row.password_hash]

ProducedPairs ==
    {PairOf(user) : user \in InitialUsers}
    \cup {[password_type |-> "argon2", password_hash |-> argon2_hash(password, salt)] :
             password \in Passwords, salt \in 1..nhash}

----------------------------------------------------------------------------
(* Bearer-token calls: the tokens a client may present, and the calls of    *)
(* Users and Session that take them                                        *)

Called(name, value) == [call |-> name, value |-> value]

\* Not a JWT at all
Malformed == [garbage |-> "not.a.jwt"]

\* The claims of an access token that expires far in the future
FarClaims == access_to_claims(AccessTokenPayload(0, 42, "alice", exp_refresh_token))

\* A claim map with one key left out
Without(claims, key) == [k \in DOMAIN claims \ {key} |-> claims[k]]

\* Tokens made outside Session.new: malformed, signed with another secret,
\* signed with the service's secret but with an expire_at of 0, with an
\* expire_at one second above the refresh threshold, or with a claim missing
CraftedTokens ==
    { Malformed,
      jwt_encode(FarClaims, "other_secret"),
      jwt_encode(access_to_claims(AccessTokenPayload(0, 42, "alice", 0)), jwt_secret),
      jwt_encode(access_to_claims(
          AccessTokenPayload(0, 42, "alice", exp_refresh_token \div 5 + 1)), jwt_secret) }
    \cup { jwt_encode(Without(FarClaims, key), jwt_secret) : key \in DOMAIN FarClaims }

\* The tokens of the Session the caller holds
HeldTokens ==
    IF session = None THEN {}
    ELSE {session.access_token} \cup
         (IF session.refresh_token = None THEN {} ELSE {session.refresh_token})

\* The seconds the clock may be seen to advance by between two calls
Ticks == {1, exp_access_token - 1}

\* time.time() advances
tick(d) ==
    /\ nticks < MaxTicks
    /\ nticks' = nticks + 1
    /\ now' = now + d
    /\ UNCHANGED <<store, nhash, nsid, reqVars, tokVars, utilVars>>

\* A login that verified the password of a stored user: Session.new(user)
new_session(user_id) ==
    /\ nsid < MaxSessions
    /\ repository_find(store, user_id) # None
    /\ nsid' = nsid + 1
    /\ session' = Session_new(repository_find(store, user_id), nsid + 1, now)
    /\ ret' = Called("new", session')
    /\ offered' = None
    /\ UNCHANGED <<now, nticks, store, nhash, reqVars, logged_out, utilVars>>

\* Users.recovery_session(access_token)
recovery_session(token) ==
    /\ ret' = Called("recovery_session", from_access_token(token, now))
    /\ session' = IF ret'.value = None THEN session ELSE ret'.value
    /\ offered' = token
    /\ UNCHANGED <<now, nticks, store,
                   nhash, nsid, reqVars, logged_out, utilVars>>

\* Users.refresh_session(refresh_token)
refresh_session(token) ==
    /\ nsid < MaxSessions
    /\ ret' = Called("refresh_session", from_refresh_token(token, store, nsid + 1, now))
    /\ session' = IF ret'.value = None THEN session ELSE ret'.value
    /\ nsid' = IF ret'.value = None THEN nsid ELSE nsid + 1
    /\ offered' = token
    /\ UNCHANGED <<now, nticks, store, nhash, reqVars, logged_out, utilVars>>

\* session.try_refresh_access_token() on the Session the caller holds
try_refresh(s) ==
    /\ s = session
    /\ s # None
    /\ ret' = Called("try_refresh_access_token",
                     Bool(try_refresh_access_token(s, now).returned))
    /\ session' = try_refresh_access_token(s, now).session
    /\ offered' = None
    /\ UNCHANGED <<now, nticks, store,
                   nhash, nsid, reqVars, logged_out, utilVars>>

\* Another writer saves the row of a user under a new name
rename_user(user_id, name) ==
    /\ repository_find(store, user_id) # None
    /\ repository_find(store, user_id).name # name
    /\ store' = repository_save(store,
                    [repository_find(store, user_id) EXCEPT !.name = name])
    /\ UNCHANGED <<now, nticks, nhash, nsid, reqVars, tokVars, utilVars>>

\* UserRepository.delete(id): find(id) reports the user as absent from then on
remove_user(user_id) ==
    /\ repository_find(store, user_id) # None
    /\ store' = {row \in store : row.id # user_id}
    /\ UNCHANGED <<now, nticks, nhash, nsid, reqVars, tokVars, utilVars>>

NextToken ==
    \/ \E d \in Ticks : tick(d)
    \/ \E user_id \in UserIds : new_session(user_id)
    \/ \E token \in CraftedTokens \cup HeldTokens : recovery_session(token)
    \/ \E token \in CraftedTokens \cup HeldTokens : refresh_session(token)
    \/ try_refresh(session)

\* The password records play no part in the token calls: one stored user
InitToken == Init /\ store = {UserData(42, "alice", "argon2", argon2_hash("hunter2", 0))}

SpecToken == InitToken /\ [][NextToken]_vars

\* The bearer-token calls while other writers change the user store
NextDirectory ==
    \/ NextToken
    \/ \E user_id \in UserIds, name \in Names : rename_user(user_id, name)
    \/ \E user_id \in UserIds : remove_user(user_id)

SpecDirectory == InitToken /\ [][NextDirectory]_vars

----------------------------------------------------------------------------
(* Properties of the bearer-token calls, checked under SpecToken *)

\* Every token a client can present in this state
Presentable == CraftedTokens \cup HeldTokens

WrongSecret(token) == IsJwt(token) /\ token.sig # jwt_secret

ExpiredAt(token, t) ==
    IsJwt(token) /\ "exp" \in DOMAIN token.claims /\ token.claims.exp < t

\* A token of the service's own secret that is not expired at t
WellSigned(token, t) ==
    /\ IsJwt(token)
    /\ token.sig = jwt_secret
    /\ "exp" \in DOMAIN token.claims => token.claims.exp > t

\* The last call was `name` and it returned a Session
GaveSession(name) == ret # None /\ ret.call = name /\ ret.value # None

\* The last call was `name` and it returned None
GaveNone(name) == ret # None /\ ret.call = name /\ ret.value = None

\* C7: a token that is malformed, signed with another secret, or whose
\* expire_at lies in the past decodes to None as either payload kind, and
\* neither _from_access_token nor _from_refresh_token makes a Session of it;
\* a call that returned a Session was given a well-formed token of the
\* service's secret.
C7_NoSessionFromBadToken ==
    /\ \A token \in Presentable :
          (~IsJwt(token) \/ WrongSecret(token) \/ ExpiredAt(token, now))
          => /\ decode_token("AccessTokenPayload", token, now) = None
             /\ decode_token("RefershTokenPayload", token, now) = None
             /\ from_access_token(token, now) = None
             /\ from_refresh_token(token, store, nsid + 1, now) = None
    /\ (GaveSession("recovery_session") \/ GaveSession("refresh_session"))
          => IsJwt(offered) /\ offered.sig = jwt_secret

\* C7 witness: recovery_session was given an access token that Session.new
\* had minted and that has expired since, and returned None
C7_Witness ==
    /\ GaveNone("recovery_session")
    /\ session # None
    /\ offered = session.access_token
    /\ offered.claims.sid >= 1
    /\ offered.sig = jwt_secret
    /\ ExpiredAt(offered, now)

\* The expiry times tried around the clock reading
Expiries == {now - 1, now, now + 1, now + exp_access_token}

AccessPayloads ==
    {AccessTokenPayload(session_id, user_id, username, expire_at) :
        session_id \in 0..MaxSessions, user_id \in UserIds,
        username \in Names, expire_at \in Expiries}

RefreshPayloads ==
    {RefershTokenPayload(session_id, user_id, expire_at) :
        session_id \in 0..MaxSessions, user_id \in UserIds, expire_at \in Expiries}

\* C8: for every access payload and every refresh payload whose expire_at is
\* still ahead, encoding its claims and decoding the token with the same
\* secret gives back the payload, field for field; so the access token of the
\* Session held decodes to that Session's access_payload.
C8_RoundTrip ==
    /\ \A payload \in AccessPayloads :
          payload.expire_at > now
          => decode_token("AccessTokenPayload",
                          jwt_encode(access_to_claims(payload), jwt_secret),
                          now) = payload
    /\ \A payload \in RefreshPayloads :
          payload.expire_at > now
          => decode_token("RefershTokenPayload",
                          jwt_encode(refresh_to_claims(payload), jwt_secret),
                          now) = payload
    /\ (session # None /\ session.access_payload.expire_at > now)
          => decode_token("AccessTokenPayload", session.access_token, now)
             = session.access_payload

\* C8 witness: recovery_session decoded an access token minted by Session.new
\* and its payload carries the token's claims
C8_Witness ==
    /\ GaveSession("recovery_session")
    /\ offered.claims.sid >= 1
    /\ offered.claims.exp = ret.value.access_payload.expire_at
    /\ offered.claims.uname = ret.value.access_payload.username
    /\ offered.claims.uid = ret.value.access_payload.user_id
    /\ offered.claims.sid = ret.value.access_payload.session_id

AccessKeys == {"sid", "uid", "uname", "exp"}
RefreshKeys == {"sid", "uid", "exp"}

\* C9: a token of the service's secret, not expired, whose claims lack a key
\* of the payload kind asked for decodes to None and gives no Session; a
\* refresh token has no uname claim, so recovery_session returns a Session
\* only for tokens that carry all four access claims.
C9_MissingClaimRejected ==
    /\ \A token \in Presentable :
          WellSigned(token, now)
          => /\ ~(AccessKeys \subseteq DOMAIN token.claims)
                => /\ decode_token("AccessTokenPayload", token, now) = None
                   /\ from_access_token(token, now) = None
             /\ ~(RefreshKeys \subseteq DOMAIN token.claims)
                => /\ decode_token("RefershTokenPayload", token, now) = None
                   /\ from_refresh_token(token, store, nsid + 1, now) = None
    /\ GaveSession("recovery_session") => AccessKeys \subseteq DOMAIN offered.claims

\* C9 witness: recovery_session was given the unexpired refresh token of the
\* Session held and returned None
C9_Witness ==
    /\ GaveNone("recovery_session")
    /\ session # None
    /\ session.refresh_token # None
    /\ offered = session.refresh_token
    /\ WellSigned(offered, now)

\* C10: whenever expire_at - now >= 0.2 * exp_refresh_token, that is
\* 5 * (expire_at - now) >= exp_refresh_token, try_refresh_access_token on
\* the Session held returns False and leaves id, access_token,
\* access_payload and refresh_token as they are.
C10_NoRefreshAboveThreshold ==
    (session # None
     /\ 5 * (session.access_payload.expire_at - now) >= exp_refresh_token)
    => /\ try_refresh_access_token(session, now).returned = FALSE
       /\ try_refresh_access_token(session, now).session = session

\* C10 witness: try_refresh_access_token returned False on a Session whose
\* access token has exactly 0.2 * exp_refresh_token seconds left
C10_Witness ==
    /\ ret = Called("try_refresh_access_token", Bool(FALSE))
    /\ session # None
    /\ 5 * (session.access_payload.expire_at - now) = exp_refresh_token

----------------------------------------------------------------------------
(* Properties of Session and Users: C12 to C14 are checked under SpecToken, *)
(* C11 and C15 to C17 under SpecDirectory, where the user store changes     *)

\* What try_refresh_access_token makes of the Session held at this clock reading
Refreshed == try_refresh_access_token(session, now)

\* The Session held is below the refresh threshold:
\* expire_at - now < 0.2 * exp_refresh_token
BelowThreshold ==
    session # None /\ 5 * (session.access_payload.expire_at - now) < exp_refresh_token

\* What C11 says of a refresh apart from the token string: True is returned,
\* the new payload keeps session_id, user_id and username of the old one
\* whatever the store holds, expires at now + exp_access_token, is what the
\* new token decodes to, and id and refresh_token stay
RefreshKeepsIdentity ==
    /\ Refreshed.returned = TRUE
    /\ Refreshed.session.access_payload.session_id = session.access_payload.session_id
    /\ Refreshed.session.access_payload.user_id = session.access_payload.user_id
    /\ Refreshed.session.access_payload.username = session.access_payload.username
    /\ Refreshed.session.access_payload.expire_at = now + exp_access_token
    /\ decode_token("AccessTokenPayload", Refreshed.session.access_token, now)
          = Refreshed.session.access_payload
    /\ Refreshed.session.id = session.id
    /\ Refreshed.session.refresh_token = session.refresh_token

\* C11 as stated: below the threshold try_refresh_access_token returns True,
\* keeps the identity as above, and the new access_token is always a
\* different string from the old one.
C11_AlwaysNewString ==
    BelowThreshold
    => /\ RefreshKeepsIdentity
       /\ Refreshed.session.access_token # session.access_token

\* C11 (amended): below the threshold try_refresh_access_token returns True
\* and replaces the access token in place, keeping session_id, user_id and
\* username of the old payload without reading the store, with
\* expire_at = now + exp_access_token and id and refresh_token unchanged; the
\* new access_token differs from the old one exactly when the old payload's
\* expire_at is not already now + exp_access_token (a refresh in the clock
\* second the token was minted in gives back the same string).
C11_RefreshInPlace ==
    BelowThreshold
    => /\ RefreshKeepsIdentity
       /\ (Refreshed.session.access_token # session.access_token)
          <=> (session.access_payload.expire_at # now + exp_access_token)

\* C11 witness: try_refresh_access_token returned True on a login's Session
\* some time after the login, while the store holds the user under another
\* name than the one the payload carries
C11_Witness ==
    /\ ret = Called("try_refresh_access_token", Bool(TRUE))
    /\ session # None
    /\ session.refresh_token # None
    /\ session.refresh_token.claims.sid = session.id
    /\ session.access_payload.expire_at = now + exp_access_token
    /\ session.access_payload.expire_at > session.refresh_token.claims.exp
    /\ session.access_payload.username = "alice"
    /\ repository_find(store, session.access_payload.user_id) # None
    /\ repository_find(store, session.access_payload.user_id).name = "bob"

\* The token is one that _new_refresh_token minted for a login: it carries
\* the three refresh claims and no other, and the session id of a Session.new
IsRefreshToken(token) ==
    /\ IsJwt(token)
    /\ DOMAIN token.claims = RefreshKeys
    /\ token.sig = jwt_secret
    /\ token.claims.sid \in 1..nsid

\* The session_id inside a refresh token
RefreshSessionId(token) == refresh_form_claims(token.claims).payload.session_id

\* C12: every Session that carries a refresh token, made by a login or by
\* redeeming a refresh token, has its id equal to the session_id of its access
\* payload and equal to the session_id inside its refresh token.
C12_OneSessionId ==
    (session # None /\ session.refresh_token # None
     /\ IsRefreshToken(session.refresh_token))
    => /\ session.id = session.access_payload.session_id
       /\ session.id = RefreshSessionId(session.refresh_token)

\* The last call was a login and the access token it issued expires at this
\* very clock reading (jwt.decode rejects a token once exp <= now), while the
\* user is still in the store
LoginAccessJustExpired ==
    /\ ret # None
    /\ ret.call = "new"
    /\ ret.value.access_payload.expire_at = now
    /\ from_access_token(ret.value.access_token, now) = None
    /\ repository_find(store, ret.value.access_payload.user_id) # None

\* C13: the refresh token of a login outlives the access token of that login:
\* at the clock reading at which the access token expires (the earliest time
\* the claim can speak of) refresh_session still makes a Session of the
\* refresh token, the user being in the store.
C13_RefreshOutlivesAccess ==
    LoginAccessJustExpired
    => from_refresh_token(ret.value.refresh_token, store, nsid + 1, now) # None

\* The session ids in the tokens and the Session the caller holds
HeldSessionIds ==
    IF session = None THEN {}
    ELSE {session.id, session.access_payload.session_id}
         \cup {token.claims.sid : token \in {t \in HeldTokens : "sid" \in DOMAIN t.claims}}

\* C14: Session.new for a stored user, at any clock reading, takes a session
\* id no Session or token held carries, puts it into both payloads, and sets
\* the access payload's expire_at and the refresh token's expire_at both to
\* now + exp_access_token (not now + exp_refresh_token); so the two tokens of
\* the Session a login returned carry the same expire_at.
C14_BothExpireWithAccessTtl ==
    /\ \A row \in store :
          LET made == Session_new(row, nsid + 1, now)
              refresh == refresh_form_claims(made.refresh_token.claims).payload
          IN  /\ made.id \notin HeldSessionIds
              /\ made.access_payload.session_id = made.id
              /\ refresh.session_id = made.id
              /\ made.access_payload.expire_at = now + exp_access_token
              /\ refresh.expire_at = now + exp_access_token
              /\ refresh.expire_at # now + exp_refresh_token
              /\ made.access_token.claims.exp = made.refresh_token.claims.exp
    /\ (ret # None /\ ret.call = "new")
          => /\ ret.value.access_payload.expire_at = ret.value.refresh_token.claims.exp
             /\ ret.value.access_token.claims.exp = ret.value.refresh_token.claims.exp

\* C14 witness: a second login, at a clock reading other than 0, has just
\* returned a Session whose two tokens expire at now + exp_access_token
C14_Witness ==
    /\ ret # None
    /\ ret.call = "new"
    /\ ret.value.id = 2
    /\ now > 0
    /\ ret.value.access_payload.expire_at = now + exp_access_token
    /\ ret.value.refresh_token.claims.exp = now + exp_access_token

\* The user store reports this user id as absent
Absent(user_id) == repository_find(store, user_id) = None

\* C15: a token that decodes as a refresh payload (signature and expiry
\* valid) whose user_id the store reports as absent gives None from
\* _from_refresh_token: no Session and no access token come of it.
C15_AbsentUserNotRefreshed ==
    \A token \in Presentable :
        LET payload == decode_token("RefershTokenPayload", token, now)
        IN  (payload # None /\ Absent(payload.user_id))
            => from_refresh_token(token, store, nsid + 1, now) = None

\* C15 witness: refresh_session was given the unexpired refresh token of a
\* login whose user is no longer in the store, and returned None
C15_Witness ==
    /\ GaveNone("refresh_session")
    /\ IsRefreshToken(offered)
    /\ WellSigned(offered, now)
    /\ Absent(offered.claims.uid)

\* C16: redeeming a token that decodes as a refresh payload, for a user the
\* store holds, gives a Session with a session id no Session or token held
\* carries, an access payload of that id with user_id and username as the
\* store holds them now and expire_at = now + exp_access_token, an access
\* token that decodes to this payload, and the presented string as
\* refresh_token; the token redeemed stays with the Session returned and can
\* be redeemed again while it is unexpired and the user is stored.
C16_RedeemWithoutRotation ==
    /\ \A token \in Presentable :
          LET payload == decode_token("RefershTokenPayload", token, now)
              made == from_refresh_token(token, store, nsid + 1, now)
          IN  (payload # None /\ ~Absent(payload.user_id))
              => LET user == repository_find(store, payload.user_id)
                 IN  /\ made # None
                     /\ made.id \notin HeldSessionIds \cup {payload.session_id}
                     /\ made.access_payload =
                           AccessTokenPayload(made.id, user.id, user.name,
                                              now + exp_access_token)
                     /\ decode_token("AccessTokenPayload", made.access_token, now)
                           = made.access_payload
                     /\ made.refresh_token = token
    /\ GaveSession("refresh_session")
          => /\ ret.value.refresh_token = offered
             /\ ret.value.id # offered.claims.sid
             /\ session = ret.value => offered \in Presentable

\* C16 witness: the refresh token of the first login was redeemed twice (the
\* Sessions 2 and 3), the second time after the user was renamed
C16_Witness ==
    /\ GaveSession("refresh_session")
    /\ IsRefreshToken(offered)
    /\ offered.claims.sid = 1
    /\ ret.value.id = 3
    /\ ret.value.refresh_token = offered
    /\ ret.value.access_payload.username = "bob"
    /\ ret.value.access_payload.expire_at > offered.claims.exp

\* C17: for every token that decodes as an access payload, whatever the
\* store holds, _from_access_token gives the Session whose id is the
\* payload's session_id, whose access_token is the presented string, whose
\* access_payload is the decoded payload and whose refresh_token is absent.
C17_AccessTokenAlone ==
    /\ \A token \in Presentable :
          LET payload == decode_token("AccessTokenPayload", token, now)
          IN  payload # None
              => from_access_token(token, now)
                   = [id |-> payload.session_id, access_token |-> token,
                      access_payload |-> payload, refresh_token |-> None]
    /\ GaveSession("recovery_session")
          => /\ ret.value.refresh_token = None
             /\ ret.value.access_token = offered
             /\ ret.value.id = offered.claims.sid
             /\ ret.value.access_payload.username = offered.claims.uname

\* C17 witness: recovery_session returned a Session for the access token of
\* a login whose user is not in the store
C17_Witness ==
    /\ GaveSession("recovery_session")
    /\ offered.claims.sid >= 1
    /\ WellSigned(offered, now)
    /\ Absent(offered.claims.uid)
    /\ ret.value.access_payload.username = "alice"

----------------------------------------------------------------------------
(* The authorization middleware and the operations it protects *)

\* What a caller may pass where the bearer token goes, besides a token: an
\* empty string, and an object that is not a string
EmptyToken == [garbage |-> ""]
NotAString == [object |-> "not a str"]

\* isinstance(token, str)
is_str(token) == token # None /\ "object" \notin DOMAIN token

\* AccessTokenPayload._form_claims of application/authorization.py: the
\* payload the middleware parses has user_id, username and expire_at
middleware_form_claims(claims) ==
    IF {"uid", "uname", "exp"} \subseteq DOMAIN claims
    THEN Parsed([user_id |-> claims.uid, username |-> claims.uname,
                 expire_at |-> claims.exp])
    ELSE KeyError

\* What one call of a wrapped operation did: whether the handler was
\* invoked, with which leading arguments, and what the caller observes
Refused(exc) == [outcome |-> Raise(exc), invoked |-> FALSE, args |-> <<>>]
Invoked(args, outcome) == [outcome |-> outcome, invoked |-> TRUE, args |-> args]

\* The first-parameter annotations `required` tells apart at wrap time
NeedParams == {"AccessTokenPayload", "Session", "None"}

\* The arguments a caller may pass after the token
CallerArgs == {<<>>, <<[arg |-> "project"]>>}

\* The handler itself, declared for the caller's arguments `given`: one that
\* declares a payload or a Session takes it as its first parameter before
\* them, one that declares neither takes only them; a call with another
\* number of positional arguments is a TypeError
handler(need_param, given, passed) ==
    LET declared == IF need_param \in {"AccessTokenPayload", "Session"}
                    THEN 1 + Len(given) ELSE Len(given)
    IN  IF Len(passed) # declared THEN Raise("TypeError")
        ELSE IF declared = 0 THEN Return(None)
        ELSE Return([str |-> ""])

\* A variant that decodes without verifying the exp claim
required_unexpiring(need_param, token, args, t) ==
    IF token = None \/ ~is_str(token)
    THEN Refused("MissingAuthorizationToken")
    ELSE LET decoded == jwt_decode_options(token, jwt_secret, t, FALSE)
         IN  IF decoded.exc # "" THEN Refused("InvalidAuthorizationToken")
             ELSE LET parsed == middleware_form_claims(decoded.claims)
                  IN  IF parsed.exc # "" THEN Refused("InvalidAuthorizationToken")
                      ELSE LET passed == IF need_param = "AccessTokenPayload"
                                         THEN <<parsed.payload>> \o args ELSE args
                           IN  Invoked(passed, handler(need_param, args, passed))

\* make_authorization_middleware(jwt_secret).required(handler), called with a
\* token and the caller's further arguments at clock reading t: the decorator
required(need_param, token, args, t) ==
    IF token = None \/ ~is_str(token)
    THEN Refused("MissingAuthorizationToken")
    ELSE LET decoded == jwt_decode(token, jwt_secret, t)
         IN  IF decoded.exc # "" THEN Refused("InvalidAuthorizationToken")
             ELSE LET parsed == middleware_form_claims(decoded.claims)
                  IN  IF parsed.exc # "" THEN Refused("InvalidAuthorizationToken")
                      ELSE LET passed == CASE need_param = "AccessTokenPayload" ->
                                                  <<parsed.payload>> \o args
                                           [] need_param = "Session" -> args
                                           [] OTHER -> args
                           IN  Invoked(passed, handler(need_param, args, passed))

\* The middleware make_session is given (auth.required) for a handler that
\* declares a Session: the token must be there, the Session comes from
\* Users.recovery_session, and the handler gets it as its first argument
session_required(token, t) ==
    IF token = None \/ ~is_str(token) \/ token = EmptyToken
    THEN [raised |-> "MissingAuthorizationToken", session |-> None]
    ELSE LET s == from_access_token(token, t)
         IN  IF s = None
             THEN [raised |-> "InvalidAuthorizationToken", session |-> None]
             ELSE [raised |-> "", session |-> s]

\* A variant of logout that deletes the user the Session belongs to
logout_body_deleting(s, rows) == {row \in rows : row.id # s.access_payload.user_id}

\* The body of make_session.Application.logout: pass
logout_body(s, rows) == rows

\* make_session.Application.login_by_access_token(token): what the caller gets
call_login_by_access_token(token, t) ==
    LET auth == session_required(token, t)
    IN  IF auth.raised # "" THEN Raise(auth.raised) ELSE Return(auth.session)

\* make_session.Application.logout(token)
call_logout(token, t) ==
    LET auth == session_required(token, t)
    IN  IF auth.raised # "" THEN Raise(auth.raised) ELSE Return(None)

\* make_session.Application.try_refresh_access_token(token)
call_try_refresh_access_token(token, t) ==
    LET auth == session_required(token, t)
    IN  IF auth.raised # "" THEN Raise(auth.raised)
        ELSE Return(try_refresh_access_token(auth.session, t).session)

\* What a caller may put in the Authorization header of a request
BearerTokens ==
    {None, EmptyToken, NotAString} \cup CraftedTokens \cup HeldTokens \cup logged_out

\* A call of an operation wrapped by `required`, with the token and the
\* caller's further arguments
protected_call(need_param, token, args) ==
    /\ ret' = [call |-> need_param, value |-> required(need_param, token, args, now),
               given |-> args]
    /\ offered' = token
    /\ UNCHANGED <<now, nticks, store, nhash,
                   nsid, reqVars, session, logged_out, utilVars>>

\* SessionApplication.login_by_access_token(token)
Application_login_by_access_token(token) ==
    /\ ret' = Called("login_by_access_token", call_login_by_access_token(token, now))
    /\ offered' = token
    /\ UNCHANGED <<now, nticks, store, nhash,
                   nsid, reqVars, session, logged_out, utilVars>>

\* SessionApplication.logout(token)
Application_logout(token) ==
    LET auth == session_required(token, now)
    IN  /\ ret' = Called("logout", call_logout(token, now))
        /\ offered' = token
        /\ store' = IF auth.raised # "" THEN store ELSE logout_body(auth.session, store)
        /\ logged_out' = IF auth.raised # "" THEN logged_out ELSE logged_out \cup {token}
        /\ UNCHANGED <<now, nticks, nhash, nsid, reqVars, session, utilVars>>

\* SessionApplication.try_refresh_access_token(token)
Application_try_refresh_access_token(token) ==
    /\ ret' = Called("try_refresh_access_token",
                     call_try_refresh_access_token(token, now))
    /\ offered' = token
    /\ UNCHANGED <<now, nticks, store, nhash,
                   nsid, reqVars, session, logged_out, utilVars>>

NextAuth ==
    \/ \E d \in Ticks : tick(d)
    \/ \E user_id \in UserIds : nsid < MaxLogins /\ new_session(user_id)
    \/ \E need_param \in NeedParams, token \in BearerTokens, args \in CallerArgs :
          protected_call(need_param, token, args)
    \/ \E token \in BearerTokens : Application_login_by_access_token(token)
    \/ \E token \in BearerTokens : Application_logout(token)
    \/ \E token \in BearerTokens : Application_try_refresh_access_token(token)

SpecAuth == InitToken /\ [][NextAuth]_vars

----------------------------------------------------------------------------
(* Properties of the protected operations, checked under SpecAuth *)

\* The step is a call of logout
LogoutStep ==
    /\ ret' # None
    /\ ret'.call = "logout"
    /\ <<ret, offered, logged_out, store>>' # <<ret, offered, logged_out, store>>

C19_MissingTokenRefused ==
    (ret # None /\ ret.call \in NeedParams /\ offered \in {None, EmptyToken})
    => ret.value = Refused("MissingAuthorizationToken")

\* The token is a string that jwt.decode accepts at t with the service's
\* secret and that carries the claims the middleware's payload is made of
Validated(token, t) ==
    /\ is_str(token)
    /\ IsJwt(token)
    /\ token.sig = jwt_secret
    /\ "exp" \in DOMAIN token.claims => token.claims.exp > t
    /\ {"uid", "uname", "exp"} \subseteq DOMAIN token.claims

\* C20: whatever the handler declares, `required` invokes it only for a
\* token that decodes and validates at the time of the call; for a token that
\* is malformed, signed with another secret, expired or short of a claim it
\* raises InvalidAuthorizationToken and the handler is not invoked.
C20_InvokedOnlyAfterValidation ==
    /\ \A need_param \in NeedParams, token \in BearerTokens, args \in CallerArgs :
          LET r == required(need_param, token, args, now)
          IN  /\ r.invoked => Validated(token, now)
              /\ (is_str(token) /\ token # EmptyToken /\ ~Validated(token, now))
                    => r = Refused("InvalidAuthorizationToken")
              /\ ~r.invoked => r.outcome.kind = "raise"
    /\ (ret # None /\ ret.call \in NeedParams /\ ret.value.invoked)
          => /\ IsJwt(offered)
             /\ offered.sig = jwt_secret
             /\ {"uid", "uname", "exp"} \subseteq DOMAIN offered.claims

\* C20 witness: a wrapped operation was called with the access token of a
\* login after it had expired, and was refused with InvalidAuthorizationToken
C20_Witness ==
    /\ ret # None
    /\ ret.call \in NeedParams
    /\ ret.value = Refused("InvalidAuthorizationToken")
    /\ session # None
    /\ offered = session.access_token
    /\ offered.claims.sid >= 1
    /\ offered.claims.exp <= now

\* The first argument is a decoded payload of the middleware
IsPayload(x) == DOMAIN x = {"user_id", "username", "expire_at"}

\* The first argument is a Session
IsSession(x) == {"access_payload", "access_token", "refresh_token"} \subseteq DOMAIN x

\* C21: when `required` invokes a handler that declares a payload or a
\* Session, the arguments it passes are the verified identity of that kind
\* (decoded from the token presented) followed by the caller's arguments
\* unchanged; a handler that declares neither gets the caller's arguments only.
C21_IdentityThenCallerArgs ==
    (ret # None /\ ret.call \in NeedParams /\ ret.value.invoked)
    => CASE ret.call = "AccessTokenPayload" ->
              /\ Len(ret.value.args) = 1 + Len(ret.given)
              /\ IsPayload(ret.value.args[1])
              /\ ret.value.args[1].user_id = offered.claims.uid
              /\ Tail(ret.value.args) = ret.given
         [] ret.call = "Session" ->
              /\ Len(ret.value.args) = 1 + Len(ret.given)
              /\ IsSession(ret.value.args[1])
              /\ ret.value.args[1].access_token = offered
              /\ Tail(ret.value.args) = ret.given
         [] OTHER -> ret.value.args = ret.given

----------------------------------------------------------------------------
(* SnowflakeGenerator (aim/util/id_generator.py) *)

\* Threads call generate() on one generator. What a thread does between
\* taking the lock and leaving the `with` block is seen by no other thread
\* of the generator, but the clock moves on its own, so a reading of the
\* clock is a step of its own.

\* x & y and x | y on non-negative integers
RECURSIVE BitAnd(_, _)
BitAnd(x, y) ==
    IF x = 0 \/ y = 0 THEN 0
    ELSE (x % 2) * (y % 2) + 2 * BitAnd(x \div 2, y \div 2)

RECURSIVE BitOr(_, _)
BitOr(x, y) ==
    IF x = 0 THEN y
    ELSE IF y = 0 THEN x
    ELSE (IF x % 2 = 1 \/ y % 2 = 1 THEN 1 ELSE 0) + 2 * BitOr(x \div 2, y \div 2)

\* x << n
ShiftLeft(x, n) == x * 2^n

\* 0xFFF, the 12-bit sequence
sequence_mask == 4095

\* (self._sequence + 1) & 0xFFF
next_sequence(sequence) == BitAnd(sequence + 1, sequence_mask)

\* A variant that shifts the timestamp by 10 bits only
snowflake_id_narrow(timestamp, a_machine_id, sequence) ==
    BitOr(BitOr(ShiftLeft(timestamp, 10), ShiftLeft(a_machine_id, 12)), sequence)

\* (timestamp << 22) | (self._machine_id << 12) | self._sequence
snowflake_id(timestamp, a_machine_id, sequence) ==
    BitOr(BitOr(ShiftLeft(timestamp, 22), ShiftLeft(a_machine_id, 12)), sequence)

\* The timestamp and the sequence packed in an id
timestamp_of(id) == id \div 2^22
sequence_of(id) == id % 2^12

\* A generator that has given 4095 ids in millisecond 0, and the last of them
NearlyExhausted ==
    [SnowflakeGenerator(machine_id) EXCEPT !.sequence = sequence_mask - 1,
                                           !.last_timestamp = 0]

\* Thread t calls generate() and waits for the lock
call_generate(t) ==
    /\ ncalls < MaxCalls
    /\ thread[t].pc = "idle"
    /\ thread' = [thread EXCEPT ![t] = [pc |-> "acquiring", out |-> None,
                                        spun |-> FALSE]]
    /\ ncalls' = ncalls + 1
    /\ UNCHANGED <<millis, generator, issued, setbacks>>
    /\ UNCHANGED <<now, nticks, store, nhash, nsid, reqVars, tokVars, shVars,
                 cfgVars, repoVars>>

\* `with self._lock:` is entered
acquire(t) ==
    /\ thread[t].pc = "acquiring"
    /\ generator.lock = 0
    /\ generator' = [generator EXCEPT !.lock = t]
    /\ thread' = [thread EXCEPT ![t].pc = "locked"]
    /\ UNCHANGED <<millis, issued, ncalls, setbacks>>
    /\ UNCHANGED <<now, nticks, store, nhash, nsid, reqVars, tokVars, shVars,
                 cfgVars, repoVars>>

\* Thread t leaves the `with` block with an outcome: the lock is released
leave(t, outcome) ==
    /\ thread' = [thread EXCEPT ![t].pc = "idle", ![t].out = outcome]
    /\ issued' = Append(issued, outcome)

\* A variant without the assert on the clock
generate_unasserted(t) ==
    /\ thread[t].pc = "locked"
    /\ LET timestamp == millis
       IN  IF timestamp = generator.last_timestamp
           THEN LET sequence == next_sequence(generator.sequence)
                IN  IF sequence = 0
                    THEN /\ generator' = [generator EXCEPT !.sequence = 0]
                         /\ thread' = [thread EXCEPT ![t].pc = "spinning",
                                                     ![t].spun = TRUE]
                         /\ UNCHANGED issued
                    ELSE /\ generator' = [generator EXCEPT !.sequence = sequence,
                                                           !.last_timestamp = timestamp,
                                                           !.lock = 0]
                         /\ leave(t, Return(snowflake_id(timestamp, generator.machine_id,
                                                         sequence)))
           ELSE /\ generator' = [generator EXCEPT !.sequence = 0,
                                                  !.last_timestamp = timestamp,
                                                  !.lock = 0]
                /\ leave(t, Return(snowflake_id(timestamp, generator.machine_id, 0)))
    /\ UNCHANGED <<millis, ncalls, setbacks>>
    /\ UNCHANGED <<now, nticks, store, nhash, nsid, reqVars, tokVars, shVars,
                 cfgVars, repoVars>>

\* The body of generate() up to its return, its AssertionError, or its call
\* of _wait_for_next_millisecond
generate(t) ==
    /\ thread[t].pc = "locked"
    /\ LET timestamp == millis
       IN  IF timestamp < generator.last_timestamp
           THEN /\ generator' = [generator EXCEPT !.lock = 0]
                /\ leave(t, Raise("AssertionError"))
           ELSE IF timestamp = generator.last_timestamp
           THEN LET sequence == next_sequence(generator.sequence)
                IN  IF sequence = 0
                    THEN /\ generator' = [generator EXCEPT !.sequence = 0]
                         /\ thread' = [thread EXCEPT ![t].pc = "spinning",
                                                     ![t].spun = TRUE]
                         /\ UNCHANGED issued
                    ELSE /\ generator' = [generator EXCEPT !.sequence = sequence,
                                                           !.last_timestamp = timestamp,
                                                           !.lock = 0]
                         /\ leave(t, Return(snowflake_id(timestamp, generator.machine_id,
                                                         sequence)))
           ELSE /\ generator' = [generator EXCEPT !.sequence = 0,
                                                  !.last_timestamp = timestamp,
                                                  !.lock = 0]
                /\ leave(t, Return(snowflake_id(timestamp, generator.machine_id, 0)))
    /\ UNCHANGED <<millis, ncalls, setbacks>>
    /\ UNCHANGED <<now, nticks, store, nhash, nsid, reqVars, tokVars, shVars,
                 cfgVars, repoVars>>

\* A variant that leaves the loop at its first reading of the clock
wait_for_next_millisecond_hasty(t) ==
    /\ thread[t].pc = "spinning"
    /\ LET timestamp == millis
       IN  /\ generator' = [generator EXCEPT !.last_timestamp = timestamp,
                                             !.lock = 0]
           /\ leave(t, Return(snowflake_id(timestamp, generator.machine_id,
                                           generator.sequence)))
    /\ UNCHANGED <<millis, ncalls, setbacks>>
    /\ UNCHANGED <<now, nticks, store, nhash, nsid, reqVars, tokVars, shVars,
                 cfgVars, repoVars>>

\* One reading of the clock in the loop of _wait_for_next_millisecond, and
\* the rest of generate() once the loop ends
wait_for_next_millisecond(t) ==
    /\ thread[t].pc = "spinning"
    /\ LET timestamp == millis
       IN  IF timestamp <= generator.last_timestamp
           THEN UNCHANGED <<generator, thread, issued>>
           ELSE /\ generator' = [generator EXCEPT !.last_timestamp = timestamp,
                                                  !.lock = 0]
                /\ leave(t, Return(snowflake_id(timestamp, generator.machine_id,
                                                generator.sequence)))
    /\ UNCHANGED <<millis, ncalls, setbacks>>
    /\ UNCHANGED <<now, nticks, store, nhash, nsid, reqVars, tokVars, shVars,
                 cfgVars, repoVars>>

\* Some thread is in the loop and the clock has not yet passed the last
\* timestamp
Spinning == \E t \in Threads : thread[t].pc = "spinning"

\* The clock reaches the next millisecond
clock_advance ==
    /\ millis < MaxMillis \/ (Spinning /\ millis <= generator.last_timestamp)
    /\ millis' = millis + 1
    /\ UNCHANGED <<generator, thread, issued, ncalls, setbacks>>
    /\ UNCHANGED <<now, nticks, store, nhash, nsid, reqVars, tokVars, shVars,
                 cfgVars, repoVars>>

\* The clock is set back by d milliseconds (time.time() is the wall clock)
clock_set_back(d) ==
    /\ setbacks < MaxSetbacks
    /\ d <= millis
    /\ millis' = millis - d
    /\ setbacks' = setbacks + 1
    /\ UNCHANGED <<generator, thread, issued, ncalls>>
    /\ UNCHANGED <<now, nticks, store, nhash, nsid, reqVars, tokVars, shVars,
                 cfgVars, repoVars>>

NextSnowflake ==
    \/ \E t \in Threads : call_generate(t)
    \/ \E t \in Threads : acquire(t)
    \/ \E t \in Threads : generate(t)
    \/ \E t \in Threads : wait_for_next_millisecond(t)
    \/ clock_advance
    \/ \E d \in {1, 2} : clock_set_back(d)

\* The generator is new, or has given 4095 ids in the millisecond the clock
\* still reads
InitSnowflake ==
    /\ InitUsers
    /\ InitSessionHandler
    /\ InitConfig
    /\ InitRepository
    /\ store = {UserData(42, "alice", "argon2", argon2_hash("hunter2", 0))}
    /\ millis = 0
    /\ thread = ThreadsIdle
    /\ ncalls = 0
    /\ setbacks = 0
    /\ \/ generator = SnowflakeGenerator(machine_id) /\ issued = <<>>
       \/ /\ generator = NearlyExhausted
          /\ issued = <<Return(snowflake_id(0, machine_id, sequence_mask - 1))>>

SpecSnowflake == InitSnowflake /\ [][NextSnowflake]_vars

\* A thread that waits for a free lock gets it, a thread that holds the lock
\* runs, and the clock advances
FairSnowflake ==
    /\ SpecSnowflake
    /\ \A t \in Threads : WF_vars(acquire(t))
    /\ \A t \in Threads : WF_vars(generate(t))
    /\ \A t \in Threads : WF_vars(wait_for_next_millisecond(t))
    /\ WF_vars(clock_advance)

----------------------------------------------------------------------------
(* Properties of the generator, checked under SpecSnowflake *)

\* The ids given so far, in the order their calls held the lock
IssuedIds == [i \in {k \in 1..Len(issued) : issued[k].kind = "return"} |->
                 issued[i].value]

\* C22: no two generate() calls on one generator return the same id, and
\* the ids are strictly increasing in the order the calls held the lock,
\* whatever the interleaving of the threads.
C22_UniqueAndIncreasing ==
    \A i, j \in DOMAIN IssuedIds : i < j => IssuedIds[i] < IssuedIds[j]

\* Both threads were given ids, in one millisecond and across milliseconds
C22_Witness ==
    /\ \A t \in Threads : thread[t].out # None /\ thread[t].out.kind = "return"
    /\ \E i, j \in DOMAIN IssuedIds :
          i < j /\ timestamp_of(IssuedIds[i]) = timestamp_of(IssuedIds[j])
    /\ \E i, j \in DOMAIN IssuedIds :
          i < j /\ timestamp_of(IssuedIds[i]) < timestamp_of(IssuedIds[j])

\* The lock is held exactly while some thread is inside the `with` block
LockHeldInside ==
    /\ generator.lock # 0 => thread[generator.lock].pc \in {"locked", "spinning"}
    /\ \A t \in Threads :
          thread[t].pc \in {"locked", "spinning"} => generator.lock = t

\* Thread t runs the body of generate() in this step while the clock reads
\* less than the last timestamp used
ReadsClockBehind(t) ==
    /\ thread[t].pc = "locked"
    /\ thread'[t].pc # "locked"
    /\ millis < generator.last_timestamp

----------------------------------------------------------------------------
(* Properties of the generator, checked under FairSnowflake *)

\* Thread t runs the body of generate() in this step when the sequence of
\* the millisecond the clock reads is used up
Exhausts(t) ==
    /\ thread[t].pc = "locked"
    /\ thread'[t].pc # "locked"
    /\ millis = generator.last_timestamp
    /\ generator.sequence = sequence_mask

\* Thread t leaves the wait loop in this step
LeavesLoop(t) == thread[t].pc = "spinning" /\ thread'[t].pc # "spinning"

\* C27: when the 12-bit sequence wraps to 0 within one millisecond, the call
\* waits in the loop, holding the lock, until the clock reads a timestamp
\* strictly greater than the last one used, then returns an id with that
\* timestamp and sequence 0; and as long as the clock advances, every
\* generate() call ends.
C27_WrapWaitsForNextMillisecond ==
    /\ [][\A t \in Threads :
             /\ Exhausts(t) => thread'[t].pc = "spinning" /\ issued' = issued
             /\ (thread[t].pc # "spinning" /\ thread'[t].pc = "spinning")
                   => Exhausts(t)
             /\ LeavesLoop(t) =>
                   /\ millis > generator.last_timestamp
                   /\ thread'[t].pc = "idle"
                   /\ thread'[t].out = Return(snowflake_id(millis, machine_id, 0))
                   /\ timestamp_of(thread'[t].out.value) = millis
                   /\ sequence_of(thread'[t].out.value) = 0
                   /\ issued' = Append(issued, thread'[t].out)
                   /\ generator'.last_timestamp = millis
                   /\ generator'.lock = 0]_vars
    /\ [](\A t \in Threads :
             thread[t].pc = "spinning" => generator.lock = t /\ generator.sequence = 0)
    /\ \A t \in Threads : (thread[t].pc # "idle") ~> (thread[t].pc = "idle")

\* A call that went through the wait loop has returned, while the other
\* thread had to wait for the lock
C27_Witness ==
    \E t \in Threads :
        /\ thread[t].pc = "idle"
        /\ thread[t].spun
        /\ thread[t].out.kind = "return"
        /\ sequence_of(thread[t].out.value) = 0
        /\ timestamp_of(thread[t].out.value) > 0
        /\ \E i \in 1..Len(issued) :
              /\ issued[i].kind = "return"
              /\ sequence_of(issued[i].value) = sequence_mask

----------------------------------------------------------------------------
(* SQLAlchemyAsyncSessionHandler.session_handler (aim/util/session_handler.py) *)

\* The names of the rows a body adds
ModelNames == {"commit_on_success", "rollback_on_exception"}

\* What a body can raise: an Exception, or a BaseException that is not an
\* Exception (asyncio cancels a task by raising CancelledError at an await)
BodyExceptions == {"Exception", "CancelledError"}

\* isinstance(exc, Exception)
IsException(exc) == exc # "CancelledError"

\* A reference to AsyncSession i
Ref(i) == [ref |-> i]

\* The caller's own session, as in `async with AsyncSession(engine) as existing_session`
existing_session == Ref(0)

\* session.commit(), session.rollback(), session.close()
commit(a_session) == [a_session EXCEPT !.commits = @ + 1, !.pending = {}]
rollback(a_session) == [a_session EXCEPT !.rollbacks = @ + 1, !.pending = {}]
close(a_session) == [a_session EXCEPT !.closes = @ + 1, !.pending = {}]

\* session.commit() that fails: the exception leaves commit() with the
\* transaction still open
commit_failed(a_session) == [a_session EXCEPT !.commits = @ + 1]

\* A variant that manages a provided session like one of its own
after_yield_managing_any(a_session, created, body, commit_ok) ==
    IF body = None
    THEN IF commit_ok
         THEN [session |-> close(commit(a_session)), rows |-> a_session.pending,
               outcome |-> Return(None)]
         ELSE [session |-> close(rollback(commit_failed(a_session))), rows |-> {},
               outcome |-> Raise("IntegrityError")]
    ELSE IF IsException(body.exc)
         THEN [session |-> close(rollback(a_session)), rows |-> {}, outcome |-> body]
         ELSE [session |-> close(a_session), rows |-> {}, outcome |-> body]

\* The code of session_handler after its `yield session`: what becomes of
\* the session, which rows reach the table, and what the `async with`
\* statement gives its caller. `body` is None when the body completed and
\* the exception it raised otherwise.
after_yield(a_session, created, body, commit_ok) ==
    IF created = None
    THEN [session |-> a_session, rows |-> {},
          outcome |-> IF body = None THEN Return(None) ELSE body]
    ELSE IF body = None
    THEN IF commit_ok
         THEN [session |-> close(commit(a_session)), rows |-> a_session.pending,
               outcome |-> Return(None)]
         ELSE [session |-> close(rollback(commit_failed(a_session))), rows |-> {},
               outcome |-> Raise("IntegrityError")]
    ELSE IF IsException(body.exc)
         THEN [session |-> close(rollback(a_session)), rows |-> {}, outcome |-> body]
         ELSE [session |-> close(a_session), rows |-> {}, outcome |-> body]

\* `async with session_handler(session) as s:` is entered: the code of
\* session_handler up to its yield
session_handler(given) ==
    /\ uow.pc = "out"
    /\ nuses < MaxUses
    /\ nuses' = nuses + 1
    /\ uow' = IF given = None
              THEN [pc |-> "body", given |-> given, session |-> Ref(nuses + 1),
                    new_session |-> Ref(nuses + 1), body |-> None, outcome |-> None]
              ELSE [pc |-> "body", given |-> given, session |-> given,
                    new_session |-> None, body |-> None, outcome |-> None]
    /\ UNCHANGED <<sessions, database>>
    /\ UNCHANGED <<now, nticks, store, nhash, nsid, reqVars, tokVars, genVars,
                 cfgVars, repoVars>>

\* The body adds a row: session.add(TestModel(name=name))
body_add(name) ==
    /\ uow.pc = "body"
    /\ name \notin database \cup sessions[uow.session.ref].pending
    /\ sessions' = [sessions EXCEPT ![uow.session.ref].pending = @ \cup {name}]
    /\ UNCHANGED <<uow, database, nuses>>
    /\ UNCHANGED <<now, nticks, store, nhash, nsid, reqVars, tokVars, genVars,
                 cfgVars, repoVars>>

\* The block is left with the body's result `body`, and session_handler
\* runs from its yield to its end
leave_block(body, commit_ok) ==
    /\ uow.pc = "body"
    /\ LET after == after_yield(sessions[uow.session.ref], uow.new_session,
                                body, commit_ok)
       IN  /\ sessions' = [sessions EXCEPT ![uow.session.ref] = after.session]
           /\ database' = database \cup after.rows
           /\ uow' = [uow EXCEPT !.pc = "out", !.body = body,
                                 !.outcome = after.outcome]
    /\ UNCHANGED nuses
    /\ UNCHANGED <<now, nticks, store, nhash, nsid, reqVars, tokVars, genVars,
                 cfgVars, repoVars>>

\* The body completes
body_completes(commit_ok) == leave_block(None, commit_ok)

\* The body raises
body_raises(exc) == leave_block(Raise(exc), TRUE)

\* The caller commits its own session after the block
caller_commits ==
    /\ uow.pc = "out"
    /\ sessions[0].pending # {}
    /\ sessions[0].closes = 0
    /\ database' = database \cup sessions[0].pending
    /\ sessions' = [sessions EXCEPT ![0] = commit(@)]
    /\ UNCHANGED <<uow, nuses>>
    /\ UNCHANGED <<now, nticks, store, nhash, nsid, reqVars, tokVars, genVars,
                 cfgVars, repoVars>>

NextSessionHandler ==
    \/ \E given \in {None, existing_session} : session_handler(given)
    \/ \E name \in ModelNames : body_add(name)
    \/ \E commit_ok \in BOOLEAN : body_completes(commit_ok)
    \/ \E exc \in BodyExceptions : body_raises(exc)
    \/ caller_commits

InitSession ==
    /\ InitUsers
    /\ store = {UserData(42, "alice", "argon2", argon2_hash("hunter2", 0))}
    /\ InitUtil

SpecSessionHandler == InitSession /\ [][NextSessionHandler]_vars

----------------------------------------------------------------------------
(* Properties of session_handler, checked under SpecSessionHandler *)

\* The block is left in this step
LeavesBlock == uow.pc = "body" /\ uow'.pc = "out"

\* The session the block was given by session_handler, before and after
Yielded == sessions[uow.session.ref]
YieldedAfter == sessions'[uow.session.ref]

\* A session the handler created is committed once when the body completes,
\* never when it raises, and is closed once either way
OwnSessionEnded ==
    (LeavesBlock /\ uow.given = None) =>
        /\ YieldedAfter.closes = 1
        /\ uow'.body = None => YieldedAfter.commits = 1
        /\ uow'.body # None =>
              /\ YieldedAfter.commits = 0
              /\ uow'.outcome = uow'.body
              /\ database' = database

\* A session the caller provided is the one yielded, and leaving the block
\* calls nothing on it
ProvidedSessionUntouched ==
    /\ (uow.pc = "out" /\ uow'.pc = "body" /\ uow'.given # None) =>
          uow'.session = uow'.given
    /\ (LeavesBlock /\ uow.given # None) =>
          /\ YieldedAfter = Yielded
          /\ YieldedAfter.closes = 0
          /\ database' = database

\* C24 as stated: session_handler manages only a session it created: it
\* commits exactly once if the body completes, rolls back without committing
\* and re-raises if the body raises, and always closes the session; a
\* session the caller provided is yielded as it is and never committed,
\* rolled back or closed.
C24_RollsBackOnAnyRaise ==
    [][/\ OwnSessionEnded
       /\ ProvidedSessionUntouched
       /\ (LeavesBlock /\ uow.given = None /\ uow'.body # None) =>
             YieldedAfter.rollbacks = 1]_vars

\* C24, amended: rollback() is called when the body raises an Exception; a
\* BaseException that is not an Exception (a cancellation) is re-raised
\* with no rollback() call: the session is only closed, and nothing of it
\* is committed.
C24_ManagesOnlyOwnSession ==
    [][/\ OwnSessionEnded
       /\ ProvidedSessionUntouched
       /\ (LeavesBlock /\ uow.given = None /\ uow'.body # None) =>
             /\ YieldedAfter.rollbacks = (IF IsException(uow'.body.exc) THEN 1 ELSE 0)
             /\ YieldedAfter.pending = {}]_vars

\* A created session was committed with its row, another was rolled back
\* on an Exception, and a provided session left the block with its row
\* still pending
C24_Witness ==
    /\ uow.pc = "out"
    /\ \E i \in 1..MaxUses :
          sessions[i].commits = 1 /\ sessions[i].closes = 1 /\ database # {}
    /\ \E i \in 1..MaxUses :
          /\ sessions[i].commits = 0
          /\ sessions[i].rollbacks = 1
          /\ sessions[i].closes = 1
    /\ uow.given = existing_session
    /\ sessions[0].pending # {}
    /\ sessions[0].closes = 0

----------------------------------------------------------------------------
(* ConfigParser (aim/util/config_parser.py) *)

\* Python values: str, int and bool (None and Bool are above)
PyStr(s) == [str |-> s]
PyInt(n) == [int |-> n]

IsStr(value) == "str" \in DOMAIN value
IsInt(value) == "int" \in DOMAIN value
IsBool(value) == "bool" \in DOMAIN value

\* The truth value Python's `or` tests
truthy(value) ==
    IF value = None THEN FALSE
    ELSE IF IsStr(value) THEN value.str # ""
    ELSE IF IsInt(value) THEN value.int # 0
    ELSE value.bool

\* a or b
py_or(a, b) == IF truthy(a) THEN a ELSE b

\* The keys the program asks for
ConfigKeys == {"max_timeout", "debug"}

\* key.lower().replace("_", "-")
cli_style(key) == IF key = "max_timeout" THEN "max-timeout" ELSE key

\* key.upper()
upper(key) == IF key = "max_timeout" THEN "MAX_TIMEOUT" ELSE "DEBUG"

\* ConfigParser._get_cli_value
get_cli_value(a_parser, key) == dict_get(a_parser.cli_args, cli_style(key))

\* ConfigParser._get_env_value
get_env_value(a_parser, key) ==
    dict_get(a_parser.env_vars, a_parser.env_prefix \o upper(key))

\* ConfigParser._get_value
get_value(a_parser, key) ==
    py_or(get_cli_value(a_parser, key), get_env_value(a_parser, key))

\* int(s) of a str: the decimal strings of the model, ValueError for the rest
DecimalStrings == {"0", "30", "60", "20", "40"}

int_of_str(s) ==
    CASE s = "0" -> 0 [] s = "30" -> 30 [] s = "60" -> 60
      [] s = "20" -> 20 [] s = "40" -> 40

\* _convert_value(value, int): None when int() raises
convert_value_int(value) ==
    IF IsStr(value)
    THEN IF value.str \in DecimalStrings THEN PyInt(int_of_str(value.str)) ELSE None
    ELSE IF IsInt(value) THEN value
    ELSE PyInt(IF value.bool THEN 1 ELSE 0)

\* ConfigParser.parse_int
parse_int(a_parser, key, default, min_value) ==
    LET value == get_value(a_parser, key)
    IN  IF value = None THEN default
        ELSE LET converted == convert_value_int(value)
             IN  IF converted # None /\ min_value # None /\ converted.int < min_value.int
                 THEN default
                 ELSE converted

\* s.lower().strip() of the strings of the model
lower_strip(s) == IF s = "TRUE " THEN "true" ELSE s

\* ConfigParser.parse_bool: an int (a bool is one) is compared with 0
parse_bool(a_parser, key, default) ==
    LET value == get_value(a_parser, key)
    IN  IF value = None THEN default
        ELSE IF IsInt(value) THEN Bool(value.int > 0)
        ELSE IF IsBool(value) THEN value
        ELSE LET value_str == lower_strip(value.str)
             IN  IF value_str \in {"true", "yes", "1", "on"} THEN Bool(TRUE)
                 ELSE IF value_str \in {"false", "no", "0", "off"} THEN Bool(FALSE)
                 ELSE default

\* str(value).strip()
str_strip(value) ==
    IF IsStr(value) THEN PyStr(IF value.str = "TRUE " THEN "TRUE" ELSE value.str)
    ELSE IF IsInt(value)
    THEN PyStr(CASE value.int = 0 -> "0" [] value.int = 30 -> "30" [] OTHER -> "1")
    ELSE PyStr(IF value.bool THEN "True" ELSE "False")

\* ConfigParser.parse_str
parse_str(a_parser, key, default) ==
    LET value == get_value(a_parser, key)
    IN  IF value = None THEN default ELSE str_strip(value)

\* parse_<name>(key, default) on a parser
parse_call(name, a_parser, key, default) ==
    CASE name = "parse_int" -> parse_int(a_parser, key, default, None)
      [] name = "parse_int_min" -> parse_int(a_parser, key, default, PyInt(40))
      [] name = "parse_bool" -> parse_bool(a_parser, key, default)
      [] name = "parse_str" -> parse_str(a_parser, key, default)

\* The default each call is given
DefaultOf(name) ==
    CASE name = "parse_int" -> PyInt(5)
      [] name = "parse_int_min" -> PyInt(50)
      [] name = "parse_bool" -> Bool(TRUE)
      [] name = "parse_str" -> PyStr("slow")

ParseCalls == {"parse_int", "parse_int_min", "parse_bool", "parse_str"}

\* A parse_* call on the parser
parse(name, key, default) ==
    /\ last_parse' = [call |-> name, key |-> key, default |-> default,
                  value |-> parse_call(name, parser, key, default)]
    /\ UNCHANGED <<os_environ, dotenv_files, parser>>
    /\ UNCHANGED <<now, nticks, store, nhash, nsid, reqVars, tokVars, genVars,
                 shVars, repoVars>>

NextConfig ==
    \E name \in ParseCalls, key \in ConfigKeys :
        \E default \in {None, DefaultOf(name)} : parse(name, key, default)

\* What the command line can hold for max-timeout, what the environment can
\* hold for APP_MAX_TIMEOUT, and what the two .env files can
CliValues == {PyStr("30"), PyStr("0"), PyStr(""), PyInt(30), PyInt(0), Bool(TRUE), Bool(FALSE),
              PyStr("abc")}
EnvironValues == {PyStr("60"), PyStr("TRUE ")}

\* A dict with the key k, or without it when the value is None
dict_of(k, value) == IF value = None THEN EmptyDict ELSE [i \in {k} |-> value]

\* A parser made from any command line, environment and .env files
InitParser ==
    /\ InitUsers
    /\ store = {UserData(42, "alice", "argon2", argon2_hash("hunter2", 0))}
    /\ InitGenerator
    /\ InitSessionHandler
    /\ InitRepository
    /\ \E cli \in CliValues \cup {None}, var \in EnvironValues \cup {None},
          first \in {PyStr("20"), None}, second \in {PyStr("40"), None} :
          /\ os_environ = dict_of("APP_MAX_TIMEOUT", var)
          /\ dotenv_files = <<dict_of("APP_MAX_TIMEOUT", first),
                              dict_of("APP_MAX_TIMEOUT", second)>>
          /\ parser = ConfigParser(dict_of("max-timeout", cli), dotenv_files, "APP",
                                   os_environ)
    /\ last_parse = None

SpecConfig == InitParser /\ [][NextConfig]_vars

----------------------------------------------------------------------------
(* Properties of ConfigParser, checked under SpecConfig *)

\* The same parser with an empty environment and no .env file
WithoutEnvironment == [parser EXCEPT !.env_vars = EmptyDict]

\* C25: when a key is present in the CLI arguments, every parse_* call
\* returns what the CLI argument gives, whatever the environment and the
\* .env files hold for the key.
C25_CliFirst ==
    (last_parse # None /\ cli_style(last_parse.key) \in DOMAIN parser.cli_args)
    => last_parse.value = parse_call(last_parse.call, WithoutEnvironment, last_parse.key,
                                 last_parse.default)

----------------------------------------------------------------------------
(* BaseRepositoryPlus (aim/infrastructure/rdbms/_base.py) *)

\* Every repository call runs in a session of its own, made and committed
\* by session_handler: an action below is one such transaction.

EntityIds == {1, 2}
EntityNames == {"Test Organization", "Updated Organization"}

\* An entity, and the row _to_model makes of it: _to_model writes the
\* entity's fields and leaves utc_deleted as it finds it
Entity(id, name) == [id |-> id, name |-> name]

to_row(entity, existing) ==
    [id |-> entity.id, name |-> entity.name,
     utc_deleted |-> IF existing = None THEN None ELSE existing.utc_deleted]

\* _to_entity
to_entity(row) == Entity(row.id, row.name)

\* datetime.now()
datetime_now == [datetime |-> "now"]

\* session.get(self._model, id): the row with this primary key, deleted or not
session_get(rows, id) ==
    IF \E row \in rows : row.id = id
    THEN CHOOSE row \in rows : row.id = id
    ELSE None

\* BaseRepositoryPlus._save: the rows after it
base_save(rows, entity) ==
    LET existing == session_get(rows, entity.id)
    IN  {row \in rows : row.id # entity.id} \cup {to_row(entity, existing)}

\* The rows the UPDATE of _delete matches
delete_matches(rows, id) == {row \in rows : row.id = id /\ row.utc_deleted = None}

\* BaseRepositoryPlus._delete: the rows after it and what the call gives
base_delete(rows, id) ==
    IF delete_matches(rows, id) = {}
    THEN [rows |-> rows, outcome |-> Raise("ValueError")]
    ELSE [rows |-> (rows \ delete_matches(rows, id)) \cup
                       {[row EXCEPT !.utc_deleted = datetime_now] :
                            row \in delete_matches(rows, id)},
          outcome |-> Return(None)]

\* BaseRepositoryPlus._find
base_find(rows, id) ==
    LET found == {row \in rows : row.id = id /\ row.utc_deleted = None}
    IN  IF found = {} THEN None ELSE to_entity(CHOOSE row \in found : TRUE)

\* The rows that are not deleted, in the order of their ids
RECURSIVE in_id_order(_)
in_id_order(rows) ==
    IF rows = {} THEN <<>>
    ELSE LET first == CHOOSE row \in rows : \A other \in rows : row.id <= other.id
         IN  <<first>> \o in_id_order(rows \ {first})

\* BaseRepositoryPlus._list: _list_stmt with its offset and limit
base_list(rows, offset, limit) ==
    LET live == in_id_order({row \in rows : row.utc_deleted = None})
        upto == IF offset + limit < Len(live) THEN offset + limit ELSE Len(live)
    IN  [i \in 1..(IF upto > offset THEN upto - offset ELSE 0) |->
            to_entity(live[offset + i])]

\* repository.save(entity)
save(entity) ==
    /\ table' = base_save(table, entity)
    /\ repo_ret' = [call |-> "save", arg |-> entity, value |-> Return(None)]
    /\ UNCHANGED <<now, nticks, store, nhash, nsid, reqVars, tokVars, genVars,
                   shVars, cfgVars>>

\* repository.delete(id): a ValueError rolls the transaction back
delete(id) ==
    /\ table' = base_delete(table, id).rows
    /\ repo_ret' = [call |-> "delete", arg |-> [id |-> id],
                    value |-> base_delete(table, id).outcome]
    /\ UNCHANGED <<now, nticks, store, nhash, nsid, reqVars, tokVars, genVars,
                   shVars, cfgVars>>

\* repository.find(id)
find(id) ==
    /\ repo_ret' = [call |-> "find", arg |-> [id |-> id],
                    value |-> Return(base_find(table, id))]
    /\ UNCHANGED table
    /\ UNCHANGED <<now, nticks, store, nhash, nsid, reqVars, tokVars, genVars,
                   shVars, cfgVars>>

\* repository.list(offset, limit)
list(offset, limit) ==
    /\ repo_ret' = [call |-> "list", arg |-> [offset |-> offset, limit |-> limit],
                    value |-> Return(base_list(table, offset, limit))]
    /\ UNCHANGED table
    /\ UNCHANGED <<now, nticks, store, nhash, nsid, reqVars, tokVars, genVars,
                   shVars, cfgVars>>

NextRepository ==
    \/ \E id \in EntityIds, name \in EntityNames : save(Entity(id, name))
    \/ \E id \in EntityIds : delete(id)
    \/ \E id \in EntityIds : find(id)
    \/ \E offset \in {0, 1}, limit \in {1, 10} : list(offset, limit)

InitTable ==
    /\ InitUsers
    /\ store = {UserData(42, "alice", "argon2", argon2_hash("hunter2", 0))}
    /\ InitUtil

SpecRepository == InitTable /\ [][NextRepository]_vars

----------------------------------------------------------------------------
(* Properties of the repository, checked under SpecRepository *)

\* The entities a list call with no offset and a wide limit gives
Listed == base_list(table, 0, 10)

\* The last call was save(e): find(e.id) gives e
SavedIsFound ==
    (repo_ret # None /\ repo_ret.call = "save")
    => base_find(table, repo_ret.arg.id) = repo_ret.arg

\* The table has one row per id
OneRowPerId == \A a, b \in table : a.id = b.id => a = b

\* The last call was a delete(id) that returned: find(id) gives None and
\* list leaves the entity out
DeletedIsGone ==
    (repo_ret # None /\ repo_ret.call = "delete" /\ repo_ret.value = Return(None))
    => /\ base_find(table, repo_ret.arg.id) = None
       /\ \A i \in 1..Len(Listed) : Listed[i].id # repo_ret.arg.id

\* A delete of an id that find does not give raises ValueError and leaves
\* the table as it is
DeleteOfAbsentRaises ==
    \A id \in EntityIds :
        (/\ base_find(table, id) = None
         /\ repo_ret' # None /\ repo_ret'.call = "delete" /\ repo_ret'.arg.id = id
         /\ <<table, repo_ret>>' # <<table, repo_ret>>)
        => repo_ret'.value = Raise("ValueError") /\ table' = table

\* C26: save is an upsert keyed by id and delete is a soft delete: after
\* save(e), find(e.id) gives e, and a second save with the same id replaces
\* the fields without making a second row; after delete(id), find(id) gives
\* None and list leaves it out; a delete of an absent or already deleted id
\* raises ValueError and changes nothing.
C26_UpsertAndSoftDelete ==
    /\ [](SavedIsFound /\ OneRowPerId /\ DeletedIsGone)
    /\ [][DeleteOfAbsentRaises]_vars

----------------------------------------------------------------------------
(* Login's rehash against a change of password, checked under Spec *)

\* No request is under way
AllFinished == \A r \in Requests : pc[r] \in {"idle", "done"}

\* Request r was an update_password(old, new) with old # new that returned
\* True, and every other request was a login
UpdatedAmongLogins(r) ==
    /\ op[r] = "update_password"
    /\ result[r] = Return(Bool(TRUE))
    /\ arg[r].password # arg[r].new_password
    /\ \A q \in Requests \ {r} : op[q] \in {"", "login_by_password"}

\* The stored record of the user verifies the password
Verifies(user_id, password) ==
    LET user == repository_find(store, user_id)
    IN  /\ user # None
        /\ validate_password(user, password).raised = ""
        /\ validate_password(user, password).valid

----------------------------------------------------------------------------
(* Token kinds and the refresh threshold, checked under SpecToken *)

\* The token is an access token this service minted for one of its sessions
IsAccessToken(token) ==
    /\ IsJwt(token)
    /\ DOMAIN token.claims = AccessKeys
    /\ token.sig = jwt_secret
    /\ token.claims.sid \in 1..nsid

\* C29: refresh_session gives a Session only for a token minted as a
\* refresh token: a valid, unexpired access token presented as a refresh
\* token is rejected.
C29_AccessTokenNotRedeemable ==
    (ret # None /\ ret.call = "refresh_session" /\ IsAccessToken(offered))
    => ret.value = None

\* The Session held carries an access token this service minted
HoldsMinted == session # None /\ IsAccessToken(session.access_token)

\* C30: with the configured lifetimes (access 300 s, refresh 2 592 000 s)
\* an access token minted by this service has at most 300 s left, which is
\* below 0.2 * 2 592 000 s = 518 400 s, so try_refresh_access_token returns
\* True and re-mints the token on every call, for every such session and
\* at every time; the branch that returns False is never taken.
C30_MintedAlwaysRefreshed ==
    /\ 5 * exp_access_token < exp_refresh_token
    /\ HoldsMinted =>
          /\ session.access_payload.expire_at - now <= exp_access_token
          /\ BelowThreshold
          /\ Refreshed.returned = TRUE
          /\ Refreshed.session.access_payload.expire_at = now + exp_access_token
    /\ (ret # None /\ ret.call = "try_refresh_access_token" /\ HoldsMinted)
          => ret.value = Bool(TRUE)

\* A session from a login was refreshed one second before the token of
\* the login would have expired
C30_Witness ==
    /\ ret # None
    /\ ret.call = "try_refresh_access_token"
    /\ ret.value = Bool(TRUE)
    /\ HoldsMinted
    /\ session.refresh_token # None
    /\ now = exp_access_token - 1
    /\ session.access_payload.expire_at = now + exp_access_token

====
